---- MODULE Spec2Model ----
(***************************************************************************)
(* Snowflake -> DataHub metadata connector.                                *)
(*                                                                         *)
(* A model of the extraction / filter / publish / bookkeeping pipeline of  *)
(* main.py, datahub_client.py, snowflake_connector.py, config.py and       *)
(* utils.py.  Eight specifications share the variables:                    *)
(*   SpecFilter     the three include/exclude filters over validated lists *)
(*   SpecPublish    one call of DataHubClient._send_metadata_events        *)
(*   SpecTranslate  calls of DataHubClient.ingest_dataset/_user/_group     *)
(*   SpecExtract    one call of _extract_datasets                          *)
(*   SpecConnector  calls of SnowflakeConnector.connect / execute_query /  *)
(*                  disconnect, each query followed through its cursor     *)
(*   Spec           one run of extract_and_ingest_metadata, then main()    *)
(*   SpecPlatform   the run for every configured platform name             *)
(*   SpecLive       the run, every call of which returns or raises         *)
(***************************************************************************)
EXTENDS Integers, Sequences, FiniteSets, TLC

VARIABLES
    raw,              \* the six filter lists as given to Config(...)
    config,           \* the validated Config object
    decision,         \* the last filter call: kind, name, result
    events,           \* argument of _send_metadata_events
    offset,           \* loop variable i of _send_metadata_events
    sends,            \* session.post calls of the current publish call
    pubState,         \* idle | running | returned | raised
    pc,               \* position in extract_and_ingest_metadata
    result,           \* the IngestionResult
    connection,       \* SnowflakeConnector.connection
    _connected,       \* SnowflakeConnector._connected
    databases, dbi,   \* _extract_datasets: outer loop
    schemas, si,      \*                    middle loop
    tables, ti,       \*                    inner loop
    datasets, users, groups,   \* the extracted entities
    idx,              \* position of the ingestion loop in its list
    attempt,          \* loop variable of retry_with_backoff.wrapper
    exc,              \* the exception in flight ("none" when there is none)
    outcome,          \* none | returned | raised : how the run left
    hist              \* observations of the run (calls made, order of events)

filterVars == <<raw, config, decision>>
pubVars == <<events, offset, sends, pubState>>
connVars == <<connection, _connected>>
walkVars == <<databases, dbi, schemas, si, tables, ti>>
entityVars == <<datasets, users, groups>>
runVars == <<pc, result, connVars, walkVars, entityVars, idx, attempt, exc, outcome, hist>>
vars == <<filterVars, pubVars, runVars>>

(***************************************************************************)
(* Bounds of the model.                                                    *)
(***************************************************************************)
MaxListLen == 1      \* longest filter list drawn
MaxEvents == 4       \* longest event list handed to a stand-alone publish
MaxBatch == 2        \* largest configured batch size
MaxEntities == 3     \* most rows (tables, users, roles) the warehouse reports in one run

Min(a, b) == IF a < b THEN a ELSE b

Range(s) == {s[k] : k \in 1..Len(s)}

\* All sequences over S of length at most n.
SeqsUpTo(S, n) == UNION {[1..k -> S] : k \in 0..n}

\* The first n elements of s (all of s when it is shorter).
Prefix(s, n) == SubSeq(s, 1, Min(n, Len(s)))

(***************************************************************************)
(* Optional[List[str]]: None, or a list.                                   *)
(***************************************************************************)
None == [isNone |-> TRUE, items |-> <<>>]

List(s) == [isNone |-> FALSE, items |-> s]

\* Python truthiness of an Optional[List]: None and [] are falsy.
Truthy(v) == ~v.isNone /\ Len(v.items) > 0

\* `name in v` for a list v.
In(name, v) == name \in Range(v.items)

\* config.py: the validator of the six filter lists turns [] into None.
validate_lists(v) == IF ~v.isNone /\ Len(v.items) = 0 THEN None ELSE v

ListFields == {"include_databases", "exclude_databases", "include_schemas",
               "exclude_schemas", "include_tables", "exclude_tables"}

\* Config(**config_data): every list field goes through validate_lists.
MakeConfig(lists, structural, access, batch, platform) ==
    [include_databases |-> validate_lists(lists.include_databases),
     exclude_databases |-> validate_lists(lists.exclude_databases),
     include_schemas |-> validate_lists(lists.include_schemas),
     exclude_schemas |-> validate_lists(lists.exclude_schemas),
     include_tables |-> validate_lists(lists.include_tables),
     exclude_tables |-> validate_lists(lists.exclude_tables),
     extract_structural_metadata |-> structural,
     extract_access_control |-> access,
     batch_size |-> batch,
     platform |-> platform]

NoLists == [f \in ListFields |-> None]

(***************************************************************************)
(* main.py: the three filters.                                             *)
(***************************************************************************)
\* A filter that lets the exclude list win (the precedence reversed).
should_include_exclude_first(name, include, exclude) ==
    IF Truthy(exclude) THEN ~In(name, exclude)
    ELSE IF Truthy(include) THEN In(name, include)
    ELSE TRUE

\* A filter whose fall-through branch rejects instead of accepting.
should_include_default_false(name, include, exclude) ==
    IF Truthy(include) THEN In(name, include)
    ELSE IF Truthy(exclude) THEN ~In(name, exclude)
    ELSE FALSE

\* The body shared by the three filters: include list first, then exclude.
should_include(name, include, exclude) ==
    IF Truthy(include) THEN In(name, include)
    ELSE IF Truthy(exclude) THEN ~In(name, exclude)
    ELSE TRUE

_should_include_database(cfg, database) ==
    should_include(database, cfg.include_databases, cfg.exclude_databases)

\* A schema filter that consults the database lists.
_should_include_schema_by_database_lists(cfg, schema) ==
    should_include(schema, cfg.include_databases, cfg.exclude_databases)

_should_include_schema(cfg, schema) ==
    should_include(schema, cfg.include_schemas, cfg.exclude_schemas)

_should_include_table(cfg, table) ==
    should_include(table, cfg.include_tables, cfg.exclude_tables)

(***************************************************************************)
(* The values the variables of a part hold while that part is not running. *)
(***************************************************************************)
NoDecision == [kind |-> "none", name |-> "", result |-> FALSE]

NewResult ==
    [status |-> "in_progress", duration |-> "0.0",
     datasets_processed |-> 0, datasets_success |-> 0, datasets_failed |-> 0,
     users_processed |-> 0, users_success |-> 0, users_failed |-> 0,
     groups_processed |-> 0, groups_success |-> 0, groups_failed |-> 0,
     errors |-> <<>>]

\* What the catalog service accepted of the events of one entity.
NoDelivery ==
    [accepted |-> {},          \* positions of the events posted in a batch answered 200 / 201
     duplicate |-> FALSE]      \* one of them was in two such batches

NoLast == [class |-> "none", outcome |-> "none", calls |-> 0, raises |-> 0, delays |-> <<>>]

\* The exit code while main() has not called sys.exit.
NotExited == -1

NoWalk ==
    [dbRows |-> {},            \* databases the database listing returned
     schemaRows |-> {},        \* <<database, schema>> the schema listings returned
     tableRows |-> {},         \* <<database, schema, table>> the table listings returned
     schemasListed |-> {},     \* databases whose schemas were asked for
     tablesListed |-> {},      \* <<database, schema>> whose tables were asked for
     columnsListed |-> {},     \* <<database, schema, table>> whose columns were asked for
     failed |-> "none",        \* the step whose failure ended the extractor
     built |-> <<>>,           \* the last two tables built: their SchemaMetadata and
                               \* which of their key lookups failed
     source |-> "none",        \* primary | fallback: the listing get_users / get_roles
                               \* took its rows from
     rows |-> <<>>]            \* the rows get_users / get_roles is working on

\* How an operation of the SnowflakeConnector left.
NoOp == [op |-> "none", connected |-> FALSE, how |-> "none", opened |-> 0, path |-> "none"]

NoConn ==
    [open |-> 0,               \* cursors opened and not yet closed
     opened |-> 0,             \* cursors the operation in progress opened
     calls |-> 0,              \* operations called on the connector
     op |-> "none",            \* the operation in progress: connect | query
     pending |-> "none",       \* the step whose exception is leaving the with block
     last |-> NoOp]            \* the operation that ended last

NewHist ==
    [connectReturned |-> FALSE, \* connect() returned normally
     queried |-> FALSE,        \* an extraction listing query was issued
     posted |-> FALSE,         \* a batch was posted to the catalog service
     queriedFor |-> {},        \* classes for which a listing query was issued
     postedFor |-> {},         \* classes for which a batch was posted
     disconnectCalls |-> 0,    \* calls of SnowflakeConnector.disconnect by the run
     closeCalls |-> 0,         \* calls of connection.close
     closeFailed |-> FALSE,    \* connection.close raised
     atDisconnect |-> [result |-> NewResult, exc |-> "none"],
                               \* result and exc as the finally block found them
     cause |-> "none",         \* the step whose failure ended the run
     extracted |-> {},         \* classes whose extractor returned
     attempted |-> [c \in {"datasets", "users", "groups"} |-> 0],
                               \* entities of a class handed to the retry wrapper
     calls |-> 0,              \* calls of the wrapped function for the current entity
     raises |-> 0,             \* of which raised
     delays |-> <<>>,          \* seconds slept by the wrapper for the current entity
     delivery |-> NoDelivery,  \* what was accepted of the entity handed to the retry
                               \* wrapper last, over all calls of the wrapped function
     last |-> NoLast,          \* the entity that was counted last
     translated |-> <<>>,      \* the last two stand-alone ingest_* calls
     exitCode |-> NotExited,   \* the exit code of the process
     walk |-> NoWalk,          \* rows seen and queries issued by the running
                               \* _extract_datasets call
     conn |-> NoConn]          \* cursors and operations of the SnowflakeConnector

PubIdle ==
    /\ events = <<>>
    /\ offset = 0
    /\ sends = <<>>
    /\ pubState = "idle"

WalkIdle ==
    /\ databases = <<>> /\ dbi = 0
    /\ schemas = <<>> /\ si = 0
    /\ tables = <<>> /\ ti = 0

RunAt(position) ==
    /\ pc = position
    /\ result = NewResult
    /\ connection = "None"
    /\ _connected = FALSE
    /\ WalkIdle
    /\ datasets = <<>> /\ users = <<>> /\ groups = <<>>
    /\ idx = 0
    /\ attempt = 0
    /\ exc = "none"
    /\ outcome = "none"
    /\ hist = NewHist

RunIdle == RunAt("idle")

(***************************************************************************)
(* SpecFilter: a Config is built from six drawn lists, and one of the      *)
(* filters is called on a candidate name (the filters are pure and the     *)
(* Config is never written, so one call per behaviour shows every call).   *)
(***************************************************************************)
CandidateNames == {"DB1", "INFORMATION_SCHEMA"}

OptLists == {None} \cup {List(s) : s \in SeqsUpTo(CandidateNames, MaxListLen)}

InitFilter ==
    /\ raw \in [ListFields -> OptLists]
    /\ config = MakeConfig(raw, TRUE, TRUE, 1, "snowflake")
    /\ decision = NoDecision
    /\ PubIdle
    /\ RunIdle

ShouldIncludeDatabase ==
    /\ decision = NoDecision
    /\ \E n \in CandidateNames :
          decision' = [kind |-> "databases", name |-> n,
                       result |-> _should_include_database(config, n)]
    /\ UNCHANGED <<raw, config, pubVars, runVars>>

ShouldIncludeSchema ==
    /\ decision = NoDecision
    /\ \E n \in CandidateNames :
          decision' = [kind |-> "schemas", name |-> n,
                       result |-> _should_include_schema(config, n)]
    /\ UNCHANGED <<raw, config, pubVars, runVars>>

ShouldIncludeTable ==
    /\ decision = NoDecision
    /\ \E n \in CandidateNames :
          decision' = [kind |-> "tables", name |-> n,
                       result |-> _should_include_table(config, n)]
    /\ UNCHANGED <<raw, config, pubVars, runVars>>

NextFilter == ShouldIncludeDatabase \/ ShouldIncludeSchema \/ ShouldIncludeTable

SpecFilter == InitFilter /\ [][NextFilter]_vars

\* The include and exclude list given for the level of the last decision.
GivenInclude ==
    CASE decision.kind = "databases" -> raw.include_databases
      [] decision.kind = "schemas" -> raw.include_schemas
      [] OTHER -> raw.include_tables

GivenExclude ==
    CASE decision.kind = "databases" -> raw.exclude_databases
      [] decision.kind = "schemas" -> raw.exclude_schemas
      [] OTHER -> raw.exclude_tables

\* A list was given and holds at least one name.
Configured(v) == ~v.isNone /\ v.items # <<>>

\* C1: for each of the three filters and every name, when both the include
\* and the exclude list are configured (non-empty), the decision is "the name
\* is a member of the include list", whatever the exclude list holds.
C1_IncludeWins ==
    (decision.kind # "none" /\ Configured(GivenInclude) /\ Configured(GivenExclude))
        => (decision.result <=> decision.name \in Range(GivenInclude.items))

\* A name that is on both lists has been decided, and was included.
C1_Witness ==
    /\ decision.kind = "schemas"
    /\ Configured(GivenInclude) /\ Configured(GivenExclude)
    /\ decision.name \in Range(GivenInclude.items)
    /\ decision.name \in Range(GivenExclude.items)
    /\ decision.result

\* C2: for each of the three filters, with both lists empty or unset every
\* name is included, and an empty list behaves like an unset one: an empty or
\* unset include list with a non-empty exclude list gives "the name is not a
\* member of the exclude list".
C2_EmptyIsUnset ==
    (decision.kind # "none" /\ ~Configured(GivenInclude))
        => IF Configured(GivenExclude)
           THEN decision.result <=> decision.name \notin Range(GivenExclude.items)
           ELSE decision.result

\* An include list given as [] with the name on the exclude list: the name has
\* been decided, and was rejected.
C2_Witness ==
    /\ decision.kind = "tables"
    /\ GivenInclude = List(<<>>)
    /\ Configured(GivenExclude)
    /\ decision.name \in Range(GivenExclude.items)
    /\ ~decision.result

\* Both lists given as []: the name has been decided, and was included.
C2_WitnessBothEmpty ==
    /\ decision.kind = "databases"
    /\ GivenInclude = List(<<>>)
    /\ GivenExclude = List(<<>>)
    /\ decision.result

(***************************************************************************)
(* datahub_client.py: identifiers and change events.                       *)
(***************************************************************************)
\* A dataset identifier that leaves the schema out of the path.
_create_dataset_urn_no_schema(d) ==
    "urn:li:dataset:(urn:li:dataPlatform:" \o d.platform \o "," \o d.database
        \o "." \o d.name \o ",PROD)"

_create_dataset_urn(d) ==
    "urn:li:dataset:(urn:li:dataPlatform:" \o d.platform \o "," \o d.database
        \o "." \o d.schema \o "." \o d.name \o ",PROD)"

_create_user_urn(platform, user) ==
    "urn:li:platformUser:(urn:li:dataPlatform:" \o platform \o "," \o user.name \o ")"

_create_group_urn(platform, group) ==
    "urn:li:platformUserGroup:(urn:li:dataPlatform:" \o platform \o "," \o group.name \o ")"

\* One metadata change event (the audit header and the payload are not read
\* by the publisher and are left out).
Event(entityType, urn, aspectName) ==
    [entityType |-> entityType, aspectName |-> aspectName,
     entityUrn |-> urn, changeType |-> "UPSERT"]

\* A translation that emits the schema event whether or not there is a schema.
DatasetEvents_always_schema(d) ==
    <<Event("dataset", _create_dataset_urn(d), "datasetProperties"),
      Event("dataset", _create_dataset_urn(d), "schemaMetadata")>>

\* ingest_dataset: the events handed to _send_metadata_events.
DatasetEvents(d) ==
    <<Event("dataset", _create_dataset_urn(d), "datasetProperties")>>
    \o (IF d.schema_metadata
        THEN <<Event("dataset", _create_dataset_urn(d), "schemaMetadata")>>
        ELSE <<>>)

\* ingest_user, ingest_group: one event each.
UserEvents(platform, user) ==
    <<Event("platformUser", _create_user_urn(platform, user), "platformUserInfo")>>

GroupEvents(platform, group) ==
    <<Event("platformUserGroup", _create_group_urn(platform, group),
            "platformUserGroupInfo")>>

(***************************************************************************)
(* datahub_client.py: _send_metadata_events.                               *)
(***************************************************************************)
\* What session.post can do: answer with a status code, or raise a
\* RequestException (connection error, timeout, or the transport's retries
\* of a 429/500/502/503/504 answer exhausted).
StatusCodes == {200, 201, 204, 404}

Reply(status) == [kind |-> "response", status |-> status]

TransportError == [kind |-> "exception", status |-> 0]

PostOutcomes == {Reply(c) : c \in StatusCodes} \cup {TransportError}

\* response.raise_for_status(): raises for a 4xx or 5xx status only.
raise_for_status(status) == status >= 400 /\ status < 600

\* events[i:i + batch_size] taken one element short.
Batch_short(evts, i, size) == SubSeq(evts, i + 1, Min(i + size, Len(evts)) - 1)

\* events[i:i + batch_size]
Batch(evts, i, size) == SubSeq(evts, i + 1, Min(i + size, Len(evts)))

\* A post after which the loop goes on although the answer was an HTTP error.
PostRaises_exception_only(reply) == reply.kind = "exception"

\* Whether the loop body raises after a post that ended with `reply`.
PostRaises(reply) ==
    \/ reply.kind = "exception"
    \/ /\ reply.status \notin {200, 201}
       /\ raise_for_status(reply.status)

\* A post that was answered with status 200 or 201.
Answered200(reply) == reply.kind = "response" /\ reply.status \in {200, 201}

\* Positions in the event list of the batch events[i:i + size].
Positions(evts, i, size) == (i + 1)..Min(i + size, Len(evts))

\* The deliveries of an entity after a batch at `posns` was answered `reply`.
Deliver(d, reply, posns) ==
    IF Answered200(reply)
    THEN [accepted |-> d.accepted \cup posns,
          duplicate |-> d.duplicate \/ d.accepted \cap posns # {}]
    ELSE d

\* The class whose entity the run is ingesting (none while the publisher is
\* called on its own).
Ingesting ==
    CASE pc = "ingest_datasets" -> {"datasets"}
      [] pc = "ingest_users" -> {"users"}
      [] pc = "ingest_groups" -> {"groups"}
      [] OTHER -> {}

\* One iteration of the loop: post the next batch, then go on or raise.
Post ==
    /\ pubState = "running"
    /\ offset < Len(events)
    /\ \E reply \in PostOutcomes :
          /\ sends' = Append(sends, [batch |-> Batch(events, offset, config.batch_size),
                                     reply |-> reply])
          /\ IF PostRaises(reply)
             THEN pubState' = "raised" /\ offset' = offset
             ELSE pubState' = "running" /\ offset' = offset + config.batch_size
          /\ hist' = [hist EXCEPT
                        !.posted = TRUE,
                        !.postedFor = @ \cup Ingesting,
                        !.delivery = IF Ingesting = {} THEN @
                                     ELSE Deliver(@, reply,
                                                  Positions(events, offset, config.batch_size))]
    /\ UNCHANGED <<filterVars, events, pc, result, connVars, walkVars, entityVars,
                   idx, attempt, exc, outcome>>

\* The range is exhausted: _send_metadata_events returns.
PublishReturn ==
    /\ pubState = "running"
    /\ offset >= Len(events)
    /\ pubState' = "returned"
    /\ UNCHANGED <<filterVars, events, offset, sends, runVars>>

(***************************************************************************)
(* SpecPublish: one call of _send_metadata_events with a drawn event list  *)
(* and a drawn batch size.                                                 *)
(***************************************************************************)
SampleDataset ==
    [name |-> "T1", platform |-> "snowflake", database |-> "DB1",
     schema |-> "PUBLIC", schema_metadata |-> TRUE]

EventPool == Range(DatasetEvents(SampleDataset))

InitPublish ==
    /\ raw = NoLists
    /\ \E b \in 1..MaxBatch : config = MakeConfig(raw, TRUE, TRUE, b, "snowflake")
    /\ decision = NoDecision
    /\ events \in SeqsUpTo(EventPool, MaxEvents)
    /\ offset = 0
    /\ sends = <<>>
    /\ pubState = "running"
    /\ RunIdle

NextPublish == Post \/ PublishReturn

SpecPublish == InitPublish /\ [][NextPublish]_vars

\* The smallest k with k * b >= n.
CeilDiv(n, b) == (n + b - 1) \div b

RECURSIVE ConcatBatches(_)
ConcatBatches(log) ==
    IF log = <<>> THEN <<>>
    ELSE ConcatBatches(SubSeq(log, 1, Len(log) - 1)) \o log[Len(log)].batch

\* C6: a publish call with N events and batch size B > 0 in which every
\* delivery succeeds issues exactly ceil(N/B) posts, each carrying between 1
\* and B events, and the batches in post order concatenate to the original
\* event sequence; N = 0 issues no post.
C6_BatchPartition ==
    pubState = "returned" =>
        /\ Len(sends) = CeilDiv(Len(events), config.batch_size)
        /\ \A k \in 1..Len(sends) :
              /\ Len(sends[k].batch) >= 1
              /\ Len(sends[k].batch) <= config.batch_size
        /\ ConcatBatches(sends) = events
        /\ (events = <<>> => sends = <<>>)

\* Three events with batch size 2 were delivered: two posts, the last one short.
C6_Witness ==
    /\ pubState = "returned"
    /\ Len(events) = 3
    /\ config.batch_size = 2
    /\ Len(sends) = 2
    /\ Len(sends[2].batch) = 1
    /\ \A k \in 1..Len(sends) : sends[k].reply \in {Reply(200), Reply(201)}

\* A delivery that failed: an HTTP error answer, or no answer at all.
DeliveryFailed(reply) == reply.kind = "exception" \/ reply.status >= 400

\* C7: within one publish call the batches are posted in order, and a
\* delivery failure of batch k makes the call raise: the failed post is the
\* last post of the call, every earlier batch was posted before it, and no
\* later batch is posted.
C7_FailureStopsPublish ==
    /\ ConcatBatches(sends) = Prefix(events, Len(sends) * config.batch_size)
    /\ \A k \in 1..Len(sends) :
          DeliveryFailed(sends[k].reply) => (k = Len(sends) /\ pubState = "raised")
    /\ pubState = "raised" => (sends # <<>> /\ DeliveryFailed(sends[Len(sends)].reply))
    /\ pubState = "raised" => offset = (Len(sends) - 1) * config.batch_size

\* The second of at least three batches failed: the call raised with a batch unsent.
C7_Witness ==
    /\ pubState = "raised"
    /\ Len(sends) = 2
    /\ sends[2].reply = Reply(404)
    /\ offset + config.batch_size < Len(events)

(***************************************************************************)
(* SpecTranslate: ingest_dataset, ingest_user and ingest_group called on   *)
(* drawn entities, outside a run.  Each call builds the identifier and the *)
(* events and hands them to _send_metadata_events; the last two calls are  *)
(* kept for comparison.                                                    *)
(***************************************************************************)
\* The platform of a dataset, and the platform a client is constructed with.
Platforms == {"snowflake", "hive"}

\* Names as the warehouse can report them: a quoted identifier may hold a dot.
DatabaseNames == {"DB1", "DB1.PUBLIC"}

SchemaNames == {"PUBLIC", "PUBLIC.PUBLIC"}

TableNames == {"T1", "T2"}

PrincipalNames == {"U1", "U2"}

DatasetPool ==
    {[name |-> n, platform |-> p, database |-> d, schema |-> sc, schema_metadata |-> m] :
        n \in TableNames, p \in Platforms, d \in DatabaseNames, sc \in SchemaNames,
        m \in BOOLEAN}

PrincipalPool == {[name |-> n] : n \in PrincipalNames}

\* The log of stand-alone calls after one more call: the last two are kept.
Window(log, call) == IF log = <<>> THEN <<call>> ELSE <<log[Len(log)], call>>

\* The events ingest_dataset / ingest_user / ingest_group of a client
\* constructed with `platform` build for an entity.
Translate(cls, platform, entity) ==
    CASE cls = "datasets" -> DatasetEvents(entity)
      [] cls = "users" -> UserEvents(platform, entity)
      [] OTHER -> GroupEvents(platform, entity)

\* An ingest_* call: the events are built and the publisher is entered with
\* them; the call is logged with its arguments and its events.
EnterPublish(cls, platform, entity) ==
    /\ pc = "idle"
    /\ pubState = "idle"
    /\ events' = Translate(cls, platform, entity)
    /\ offset' = 0
    /\ sends' = <<>>
    /\ pubState' = "running"
    /\ hist' = [hist EXCEPT !.translated =
                   Window(@, [events |-> Translate(cls, platform, entity),
                              platform |-> platform, class |-> cls, entity |-> entity])]
    /\ UNCHANGED <<filterVars, pc, result, connVars, walkVars, entityVars,
                   idx, attempt, exc, outcome>>

ingest_dataset == \E d \in DatasetPool : EnterPublish("datasets", d.platform, d)

ingest_user ==
    \E platform \in Platforms, user \in PrincipalPool : EnterPublish("users", platform, user)

ingest_group ==
    \E platform \in Platforms, group \in PrincipalPool : EnterPublish("groups", platform, group)

\* The publisher returned or raised: the ingest_* call returns or re-raises.
IngestEnds ==
    /\ pc = "idle"
    /\ pubState \in {"returned", "raised"}
    /\ events' = <<>> /\ offset' = 0 /\ sends' = <<>> /\ pubState' = "idle"
    /\ UNCHANGED <<filterVars, runVars>>

InitTranslate ==
    /\ raw = NoLists
    /\ \E b \in 1..MaxBatch : config = MakeConfig(raw, TRUE, TRUE, b, "snowflake")
    /\ decision = NoDecision
    /\ PubIdle
    /\ RunIdle

NextTranslate ==
    \/ ingest_dataset
    \/ ingest_user
    \/ ingest_group
    \/ Post
    \/ PublishReturn
    \/ IngestEnds

SpecTranslate == InitTranslate /\ [][NextTranslate]_vars

\* The identifier a logged call put on its first event.
UrnOf(call) == call.events[1].entityUrn

\* The arguments the identifier of a logged call is built from.
UrnArgs(call) ==
    IF call.class = "datasets"
    THEN <<call.entity.platform, call.entity.database, call.entity.schema,
           call.entity.name>>
    ELSE <<call.platform, call.entity.name>>

\* The number of positions at which two tuples of one length differ.
Differences(a, b) == Cardinality({k \in 1..Len(a) : a[k] # b[k]})

\* Two logged calls of one kind.
Comparable(a, b) == a.class = b.class

C13_WitnessPlatform ==
    /\ Len(hist.translated) = 2
    /\ hist.translated[1].class = "users"
    /\ hist.translated[2].class = "users"
    /\ hist.translated[1].platform # hist.translated[2].platform
    /\ hist.translated[1].entity = hist.translated[2].entity
    /\ UrnOf(hist.translated[1]) # UrnOf(hist.translated[2])

\* C14: distinct (platform, database, schema, dataset name) tuples always
\* produce distinct dataset identifiers, also when a component holds a
\* delimiter character such as '.'.
C14_DatasetUrnInjective ==
    \A i, j \in 1..Len(hist.translated) :
        LET a == hist.translated[i]
            b == hist.translated[j]
        IN  (a.class = "datasets" /\ b.class = "datasets" /\ UrnArgs(a) # UrnArgs(b))
                => UrnOf(a) # UrnOf(b)

\* C15: translating one dataset gives 1 or 2 events, a datasetProperties
\* event always and first, and a schemaMetadata event iff the dataset has a
\* schema; translating one user or one group gives exactly one event; every
\* event has changeType UPSERT and the identifier of its entity, so the two
\* events of a dataset carry the same identifier.
C15_EventTranslation ==
    \A i \in 1..Len(hist.translated) :
        LET call == hist.translated[i]
            evts == call.events
        IN  /\ \A k \in 1..Len(evts) :
                  /\ evts[k].changeType = "UPSERT"
                  /\ evts[k].entityUrn = UrnOf(call)
            /\ call.class = "datasets" =>
                  /\ Len(evts) \in {1, 2}
                  /\ evts[1].aspectName = "datasetProperties"
                  /\ evts[1].entityType = "dataset"
                  /\ Len(evts) = 2 <=> call.entity.schema_metadata
                  /\ Len(evts) = 2 =>
                        (evts[2].aspectName = "schemaMetadata"
                         /\ evts[2].entityType = "dataset")
                  /\ UrnOf(call) =
                        "urn:li:dataset:(urn:li:dataPlatform:" \o call.entity.platform
                        \o "," \o call.entity.database \o "." \o call.entity.schema
                        \o "." \o call.entity.name \o ",PROD)"
            /\ call.class = "users" =>
                  /\ Len(evts) = 1
                  /\ evts[1].entityType = "platformUser"
                  /\ evts[1].aspectName = "platformUserInfo"
                  /\ UrnOf(call) =
                        "urn:li:platformUser:(urn:li:dataPlatform:" \o call.platform
                        \o "," \o call.entity.name \o ")"
            /\ call.class = "groups" =>
                  /\ Len(evts) = 1
                  /\ evts[1].entityType = "platformUserGroup"
                  /\ evts[1].aspectName = "platformUserGroupInfo"
                  /\ UrnOf(call) =
                        "urn:li:platformUserGroup:(urn:li:dataPlatform:" \o call.platform
                        \o "," \o call.entity.name \o ")"
            /\ (i = Len(hist.translated) /\ pubState # "idle") => events = evts

\* A dataset without a schema was translated into one event, after a dataset
\* with a schema had been translated into two, and is being published.
C15_Witness ==
    /\ Len(hist.translated) = 2
    /\ hist.translated[1].class = "datasets"
    /\ hist.translated[1].entity.schema_metadata
    /\ Len(hist.translated[1].events) = 2
    /\ hist.translated[2].class = "datasets"
    /\ ~hist.translated[2].entity.schema_metadata
    /\ Len(hist.translated[2].events) = 1
    /\ pubState = "returned"
    /\ Len(sends) = 1

\* A group was translated into one event.
C15_WitnessGroup ==
    /\ hist.translated # <<>>
    /\ hist.translated[Len(hist.translated)].class = "groups"
    /\ Len(hist.translated[Len(hist.translated)].events) = 1
    /\ pubState = "returned"

(***************************************************************************)
(* The warehouse: what the listing queries of one run can return.          *)
(***************************************************************************)
AllDatabases == <<"DB1", "INFORMATION_SCHEMA">>

AllSchemas == <<"PUBLIC", "STAGING">>

AllTables == <<"T1", "T2", "T3", "T4">>

AllUsers == <<"U1", "U2", "U3", "U4">>

AllRoles == <<"R1", "R2", "R3", "R4">>

\* The listings of at most `room` rows out of `pool`.
Listings(pool, room) == {Prefix(pool, n) : n \in 0..Min(room, Len(pool))}

\* A failed query.
QueryError == [ok |-> FALSE, rows |-> <<>>]

Rows(rows) == [ok |-> TRUE, rows |-> rows]

QueryOutcomes(pool, room) == {Rows(l) : l \in Listings(pool, room)} \cup {QueryError}

\* Rows of principals.  The ACCOUNT_USAGE views name their columns in upper
\* case (NAME); the SHOW commands of the fallback name them in lower case
\* (name), as get_databases reads them.  A row has no ROLES / MEMBERS entry
\* (lookup "none") until get_users / get_roles has looked its grants up.
PrincipalRows(names, keys) ==
    [k \in 1..Len(names) |->
        [keys |-> keys, name |-> names[k], lookup |-> "none", grants |-> <<>>]]

\* What the grant query of one principal can return: one name, or an error.
GrantOutcomes(pool) == {Rows(Prefix(pool, 1)), QueryError}

\* A role lookup whose failure leaves _get_user_roles.
_get_user_roles_propagates(out) == [raised |-> ~out.ok, value |-> out.rows]

\* _get_user_roles: the rows of the grant query, or [] when the query failed.
_get_user_roles(out) == [raised |-> FALSE, value |-> IF out.ok THEN out.rows ELSE <<>>]

\* _get_role_members: the same.
_get_role_members(out) == [raised |-> FALSE, value |-> IF out.ok THEN out.rows ELSE <<>>]

\* row['NAME']
HasNAME(row) == row.keys = "upper"

\* _extract_users / _extract_groups: one entity per row; KeyError on a row
\* without NAME.
BuildRaises(rows) == \E k \in 1..Len(rows) : ~HasNAME(rows[k])

\* user_data.get('ROLES', []) / group_data.get('MEMBERS', [])
GrantsOf(row) == IF row.lookup = "none" THEN <<>> ELSE row.grants

\* The entities _extract_users / _extract_groups build.  Nothing after the
\* extraction reads the roles or members (they are payload of the one event),
\* so the entity keeps its name.
BuildPrincipals(rows) == [k \in 1..Len(rows) |-> [name |-> rows[k].name]]

\* The columns every table has, and its key columns.
AllColumns == <<"ID", "NAME">>

KeyColumns == <<"ID">>

ColumnOutcomes == {Rows(AllColumns), QueryError}

KeyOutcomes == {Rows(KeyColumns), QueryError}

\* A primary-key lookup whose failure leaves _build_dataset_metadata.
_get_primary_keys_propagates(out) == [raised |-> ~out.ok, value |-> out.rows]

\* _get_primary_keys around get_primary_keys: the rows of the key query, or
\* [] when the query failed; both swallow the exception.
_get_primary_keys(out) == [raised |-> FALSE, value |-> IF out.ok THEN out.rows ELSE <<>>]

\* _get_foreign_keys around get_foreign_keys: the same.
_get_foreign_keys(out) == [raised |-> FALSE, value |-> IF out.ok THEN out.rows ELSE <<>>]

\* SchemaMetadata(name, fields, primary_keys, foreign_keys) as
\* _build_dataset_metadata builds it from the three query outcomes.
SchemaMetadata(database, schema, columns, pk, fk) ==
    [name |-> database \o "." \o schema,
     fields |-> columns.rows,
     primary_keys |-> _get_primary_keys(pk).value,
     foreign_keys |-> _get_foreign_keys(fk).value]

\* Whether _build_dataset_metadata raises: get_table_columns re-raises what
\* its query raised; the key lookups raise nothing.
BuildDatasetRaises(columns, pk, fk) ==
    ~columns.ok \/ _get_primary_keys(pk).raised \/ _get_foreign_keys(fk).raised

\* _build_dataset_metadata: platform is the literal "snowflake"; the
\* SchemaMetadata object is always built.  Nothing after the extraction reads
\* the fields and keys of the SchemaMetadata (the schema aspect's field list is
\* payload), so the dataset keeps only that it has one.
_build_dataset_metadata(database, schema, table) ==
    [name |-> table, platform |-> "snowflake", database |-> database,
     schema |-> schema, schema_metadata |-> TRUE]

(***************************************************************************)
(* main.py: the IngestionResult bookkeeping.                               *)
(***************************************************************************)
Classes == {"datasets", "users", "groups"}

Label(cls) ==
    CASE cls = "datasets" -> "Dataset"
      [] cls = "users" -> "User"
      [] OTHER -> "Group"

CriticalError == [class |-> "Critical error", name |-> ""]

Processed(r, cls) == r[cls \o "_processed"]

Success(r, cls) == r[cls \o "_success"]

Failed(r, cls) == r[cls \o "_failed"]

\* result.<cls>_processed = len(<entities>)
SetProcessed(r, cls, n) == [r EXCEPT ![cls \o "_processed"] = n]

\* result.<cls>_success += 1
CountSuccess(r, cls) == [r EXCEPT ![cls \o "_success"] = @ + 1]

\* An except branch that records the error string but not the count.
CountFailure_uncounted(r, cls, name) ==
    [r EXCEPT !.errors = Append(@, [class |-> Label(cls), name |-> name])]

\* An except branch that puts the new error string in front of the list.
CountFailure_prepend(r, cls, name) ==
    [r EXCEPT ![cls \o "_failed"] = @ + 1,
              !.errors = <<[class |-> Label(cls), name |-> name]>> \o @]

\* result.<cls>_failed += 1; result.errors.append(f"<Label> {name}: {e}")
CountFailure(r, cls, name) ==
    [r EXCEPT ![cls \o "_failed"] = @ + 1,
              !.errors = Append(@, [class |-> Label(cls), name |-> name])]

\* A run that reports failed as soon as one entity failed.
CompletedResult_strict(r) ==
    [r EXCEPT !.status = IF r.datasets_failed + r.users_failed + r.groups_failed > 0
                         THEN "failed" ELSE "completed",
              !.duration = "elapsed"]

\* An end of the try block that sets the duration and leaves the status.
CompletedResult_status_unset(r) == [r EXCEPT !.duration = "elapsed"]

\* result.status = "completed"; result.duration = ...
CompletedResult(r) == [r EXCEPT !.status = "completed", !.duration = "elapsed"]

\* An except block that replaces the error strings by the critical one.
ExceptBlock_only_critical(r) ==
    [r EXCEPT !.status = "failed", !.duration = "elapsed", !.errors = <<CriticalError>>]

\* An except block that leaves the status as it was.
ExceptBlock_no_status(r) ==
    [r EXCEPT !.duration = "elapsed", !.errors = Append(@, CriticalError)]

\* The outer except block: status, duration, one critical error entry.
ExceptBlock(r) ==
    [r EXCEPT !.status = "failed", !.duration = "elapsed",
              !.errors = Append(@, CriticalError)]

(***************************************************************************)
(* utils.py: retry_with_backoff, as applied to _ingest_dataset,            *)
(* _ingest_user and _ingest_group.                                         *)
(***************************************************************************)
max_retries == 3

\* A wrapper that gives up one attempt early.
LastAttempt_early(a) == a = max_retries - 1

\* if attempt == max_retries: raise
LastAttempt(a) == a = max_retries

backoff_factor == 2

\* A delay that grows by backoff_factor with every attempt.
Backoff_linear(a) == backoff_factor * (a + 1)

\* delay = backoff_factor * (2 ** attempt)
Backoff(a) == backoff_factor * 2^a

(***************************************************************************)
(* Spec: one run of extract_and_ingest_metadata.                           *)
(***************************************************************************)
FilteredLists ==
    [NoLists EXCEPT !.exclude_databases = List(<<"INFORMATION_SCHEMA">>),
                    !.include_tables = List(<<"T1", "T3">>)]

\* One schema excluded, nothing else filtered: both databases are walked.
ExcludedLists == [NoLists EXCEPT !.exclude_schemas = List(<<"STAGING">>)]

RunFilterLists == {ExcludedLists, FilteredLists}

Init ==
    /\ raw \in RunFilterLists
    /\ \E s \in BOOLEAN, a \in BOOLEAN, b \in 1..MaxBatch :
          config = MakeConfig(raw, s, a, b, "snowflake")
    /\ decision = NoDecision
    /\ PubIdle
    /\ RunAt("connect")

\* The class whose listing queries the step `cause` issues.
ListedBy(cause) ==
    CASE cause = "extract_datasets" -> {"datasets"}
      [] cause = "extract_users" -> {"users"}
      [] cause = "extract_groups" -> {"groups"}
      [] OTHER -> {}

\* The run fails at `cause` with an exception, the observations so far
\* being h: the except block runs (the records of the tables built are
\* dropped with the list of datasets).
RaiseWith(cause, h) ==
    /\ exc' = "Exception"
    /\ result' = ExceptBlock(result)
    /\ pc' = "finally"
    /\ hist' = [h EXCEPT !.cause = cause, !.queried = (@ \/ cause # "connect"),
                         !.queriedFor = @ \cup ListedBy(cause),
                         !.walk.built = <<>>]

Raise(cause) == RaiseWith(cause, hist)

\* self.snowflake_connector.connect(): the driver's connect, then the test query.
Connect ==
    /\ pc = "connect"
    /\ \/ /\ Raise("connect")                     \* the driver's connect raises
          /\ UNCHANGED <<connection, _connected>>
       \/ /\ Raise("connect")                     \* _test_connection raises
          /\ connection' = "conn"
          /\ _connected' = TRUE
       \/ /\ connection' = "conn"
          /\ _connected' = TRUE
          /\ pc' = "structural"
          /\ hist' = [hist EXCEPT !.connectReturned = TRUE]
          /\ UNCHANGED <<exc, result>>
    /\ UNCHANGED <<filterVars, pubVars, walkVars, entityVars, idx, attempt, outcome>>

\* Where the run goes at `if self.config.extract_structural_metadata:`.
AfterStructuralCheck(cfg) ==
    IF cfg.extract_structural_metadata THEN "get_databases" ELSE "access"

\* An access-control phase that runs only when the structural phase runs too.
AfterAccessCheck_tied(cfg) ==
    IF cfg.extract_access_control /\ cfg.extract_structural_metadata
    THEN "extract_users" ELSE "complete"

\* Where the run goes at `if self.config.extract_access_control:`.
AfterAccessCheck(cfg) ==
    IF cfg.extract_access_control THEN "extract_users" ELSE "complete"

\* if self.config.extract_structural_metadata:
StructuralPhase ==
    /\ pc = "structural"
    /\ pc' = AfterStructuralCheck(config)
    /\ UNCHANGED <<filterVars, pubVars, result, connVars, walkVars, entityVars,
                   idx, attempt, exc, outcome, hist>>

\* _extract_datasets: databases = get_databases()
GetDatabases ==
    /\ pc = "get_databases"
    /\ \E out \in QueryOutcomes(AllDatabases, Len(AllDatabases)) :
          IF out.ok
          THEN /\ databases' = out.rows
               /\ dbi' = 1
               /\ pc' = "db_loop"
               /\ hist' = [hist EXCEPT !.queried = TRUE,
                                       !.queriedFor = @ \cup {"datasets"},
                                       !.walk.dbRows = Range(out.rows)]
               /\ UNCHANGED <<exc, result>>
          ELSE /\ RaiseWith("extract_datasets", [hist EXCEPT !.walk.failed = "databases"])
               /\ UNCHANGED <<databases, dbi>>
    /\ UNCHANGED <<filterVars, pubVars, connVars, schemas, si, tables, ti, entityVars,
                   idx, attempt, outcome>>

\* for db in databases: if included: schemas = get_schemas(db).  At the end
\* of the loop _extract_datasets returns and datasets_processed is set.
DbLoop ==
    /\ pc = "db_loop"
    /\ IF dbi > Len(databases)
       THEN /\ result' = SetProcessed(result, "datasets", Len(datasets))
            /\ hist' = [hist EXCEPT !.extracted = @ \cup {"datasets"}, !.walk = NoWalk]
            /\ idx' = 1
            /\ pc' = "ingest_datasets"
            /\ databases' = <<>> /\ dbi' = 0
            /\ UNCHANGED <<schemas, si, exc>>
       ELSE IF ~_should_include_database(config, databases[dbi])
       THEN /\ dbi' = dbi + 1
            /\ UNCHANGED <<databases, schemas, si, pc, result, exc, hist, idx>>
       ELSE \E out \in QueryOutcomes(AllSchemas, Len(AllSchemas)) :
               LET asked == [hist EXCEPT !.walk.schemasListed = @ \cup {databases[dbi]}]
               IN  IF out.ok
                   THEN /\ schemas' = out.rows
                        /\ si' = 1
                        /\ pc' = "schema_loop"
                        /\ hist' = [asked EXCEPT !.walk.schemaRows = @ \cup
                                        {<<databases[dbi], sc>> : sc \in Range(out.rows)}]
                        /\ UNCHANGED <<databases, dbi, result, exc, idx>>
                   ELSE /\ RaiseWith("extract_datasets",
                                      [asked EXCEPT !.walk.failed = "schemas"])
                        /\ UNCHANGED <<databases, dbi, schemas, si, idx>>
    /\ UNCHANGED <<filterVars, pubVars, connVars, tables, ti, entityVars,
                   attempt, outcome>>

\* for schema in schemas: if included: tables = get_tables(db, schema)
SchemaLoop ==
    /\ pc = "schema_loop"
    /\ IF si > Len(schemas)
       THEN /\ dbi' = dbi + 1
            /\ schemas' = <<>> /\ si' = 0
            /\ pc' = "db_loop"
            /\ UNCHANGED <<tables, ti, result, exc, hist>>
       ELSE IF ~_should_include_schema(config, schemas[si])
       THEN /\ si' = si + 1
            /\ UNCHANGED <<dbi, schemas, tables, ti, pc, result, exc, hist>>
       ELSE \E out \in QueryOutcomes(AllTables, MaxEntities - Len(datasets)) :
               LET here == <<databases[dbi], schemas[si]>>
                   asked == [hist EXCEPT !.walk.tablesListed = @ \cup {here}]
               IN  IF out.ok
                   THEN /\ tables' = out.rows
                        /\ ti' = 1
                        /\ pc' = "table_loop"
                        /\ hist' = [asked EXCEPT !.walk.tableRows = @ \cup
                                        {here \o <<t>> : t \in Range(out.rows)}]
                        /\ UNCHANGED <<dbi, schemas, si, result, exc>>
                   ELSE /\ RaiseWith("extract_datasets",
                                      [asked EXCEPT !.walk.failed = "tables"])
                        /\ UNCHANGED <<dbi, schemas, si, tables, ti>>
    /\ UNCHANGED <<filterVars, pubVars, connVars, databases, entityVars,
                   idx, attempt, outcome>>

\* A list that takes the new dataset at its front.
AppendDataset_front(list, dataset) == <<dataset>> \o list

\* datasets.append(dataset)
AppendDataset(list, dataset) == Append(list, dataset)

\* for table in tables: if included: datasets.append(_build_dataset_metadata(...)),
\* which lists the columns, then looks up the primary and the foreign keys.
TableLoop ==
    /\ pc = "table_loop"
    /\ IF ti > Len(tables)
       THEN /\ si' = si + 1
            /\ tables' = <<>> /\ ti' = 0
            /\ pc' = "schema_loop"
            /\ UNCHANGED <<datasets, result, exc, hist>>
       ELSE IF ~_should_include_table(config, tables[ti])
       THEN /\ ti' = ti + 1
            /\ UNCHANGED <<si, tables, datasets, pc, result, exc, hist>>
       ELSE \E columns \in ColumnOutcomes, pk \in KeyOutcomes, fk \in KeyOutcomes :
               LET here == <<databases[dbi], schemas[si], tables[ti]>>
                   asked == [hist EXCEPT !.walk.columnsListed = @ \cup {here}]
                   record == [table |-> here,
                              schema_metadata |->
                                  SchemaMetadata(databases[dbi], schemas[si], columns, pk, fk),
                              pkFailed |-> ~pk.ok, fkFailed |-> ~fk.ok]
               IN  IF ~BuildDatasetRaises(columns, pk, fk)
                   THEN /\ datasets' = AppendDataset(datasets,
                               _build_dataset_metadata(databases[dbi], schemas[si], tables[ti]))
                        /\ ti' = ti + 1
                        /\ hist' = [asked EXCEPT !.walk.built = Window(@, record)]
                        /\ UNCHANGED <<si, tables, pc, result, exc>>
                   ELSE /\ RaiseWith("extract_datasets",
                                      [asked EXCEPT !.walk.failed =
                                          IF columns.ok THEN "keys" ELSE "columns"])
                        /\ UNCHANGED <<si, tables, ti, datasets>>
    /\ UNCHANGED <<filterVars, pubVars, connVars, databases, dbi, schemas, users, groups,
                   idx, attempt, outcome>>

(***************************************************************************)
(* SpecExtract: one call of _extract_datasets on an open connection, under *)
(* filter lists drawn for the three levels.                                *)
(***************************************************************************)
ExtractLists ==
    {[include_databases |-> id, exclude_databases |-> ed,
      include_schemas |-> is, exclude_schemas |-> es,
      include_tables |-> it, exclude_tables |-> et] :
        id \in {None, List(<<"DB1">>)},
        ed \in {None, List(<<"INFORMATION_SCHEMA">>)},
        is \in {None, List(<<"STAGING">>)},
        es \in {None, List(<<"PUBLIC">>)},
        it \in {None, List(<<"T1", "T3">>)},
        et \in {None, List(<<"T1">>)}}

InitExtract ==
    /\ raw \in ExtractLists
    /\ config = MakeConfig(raw, TRUE, FALSE, 1, "snowflake")
    /\ decision = NoDecision
    /\ PubIdle
    /\ pc = "get_databases"
    /\ result = NewResult
    /\ connection = "conn"
    /\ _connected = TRUE
    /\ WalkIdle
    /\ datasets = <<>> /\ users = <<>> /\ groups = <<>>
    /\ idx = 0
    /\ attempt = 0
    /\ exc = "none"
    /\ outcome = "none"
    /\ hist = [NewHist EXCEPT !.connectReturned = TRUE]

NextExtract == GetDatabases \/ DbLoop \/ SchemaLoop \/ TableLoop

SpecExtract == InitExtract /\ [][NextExtract]_vars

\* The decision the lists as given call for: the include list when it holds
\* a name, else the exclude list when it holds a name, else yes.
Passes(name, include, exclude) ==
    IF Configured(include) THEN name \in Range(include.items)
    ELSE IF Configured(exclude) THEN name \notin Range(exclude.items)
    ELSE TRUE

DbPasses(d) == Passes(d, raw.include_databases, raw.exclude_databases)

SchemaPasses(sc) == Passes(sc, raw.include_schemas, raw.exclude_schemas)

TablePasses(t) == Passes(t, raw.include_tables, raw.exclude_tables)

\* The rows of each level that pass the filters of their level and above.
PassingDbs == {d \in hist.walk.dbRows : DbPasses(d)}

PassingSchemas == {r \in hist.walk.schemaRows : DbPasses(r[1]) /\ SchemaPasses(r[2])}

PassingTables ==
    {r \in hist.walk.tableRows : DbPasses(r[1]) /\ SchemaPasses(r[2]) /\ TablePasses(r[3])}

Triple(d) == <<d.database, d.schema, d.name>>

\* _extract_datasets is walking the warehouse.
Walking == pc \in {"db_loop", "schema_loop", "table_loop"}

\* The outer loop is exhausted: _extract_datasets is about to return datasets.
ExtractorReturning == pc = "db_loop" /\ dbi > Len(databases)

\* C16: during dataset extraction schemas are listed only for databases that
\* pass the database filter, tables only for schemas that pass the schema
\* filter (in such a database), columns only for tables that pass the table
\* filter (in such a schema); and the datasets the extractor returns are
\* exactly the listed (database, schema, table) triples whose three names
\* each pass the filter of their own level.
C16_FilteredTraversal ==
    /\ hist.walk.schemasListed \subseteq PassingDbs
    /\ hist.walk.tablesListed \subseteq PassingSchemas
    /\ hist.walk.columnsListed \subseteq PassingTables
    /\ Walking => \A k \in 1..Len(datasets) : Triple(datasets[k]) \in hist.walk.columnsListed
    /\ ExtractorReturning =>
          /\ hist.walk.schemasListed = PassingDbs
          /\ hist.walk.tablesListed = PassingSchemas
          /\ hist.walk.columnsListed = PassingTables
          /\ {Triple(datasets[k]) : k \in 1..Len(datasets)} = PassingTables
          /\ Len(datasets) = Cardinality(PassingTables)

\* The extractor returns one dataset, having skipped a database, a schema and
\* a table that the lists reject.
C16_Witness ==
    /\ ExtractorReturning
    /\ Len(datasets) = 1
    /\ \E d \in hist.walk.dbRows : ~DbPasses(d)
    /\ \E r \in hist.walk.schemaRows : ~SchemaPasses(r[2])
    /\ \E r \in hist.walk.tableRows : ~TablePasses(r[3])
    /\ Cardinality(hist.walk.schemasListed) = 1
    /\ Cardinality(hist.walk.tablesListed) = 1

\* Scenario D: with INFORMATION_SCHEMA excluded and both databases listed,
\* only DB1 was traversed.
C16_WitnessScenarioD ==
    /\ ExtractorReturning
    /\ raw = [NoLists EXCEPT !.exclude_databases = List(<<"INFORMATION_SCHEMA">>)]
    /\ hist.walk.dbRows = {"DB1", "INFORMATION_SCHEMA"}
    /\ hist.walk.schemasListed = {"DB1"}
    /\ Len(datasets) >= 2
    /\ \A k \in 1..Len(datasets) : datasets[k].database = "DB1"

(***************************************************************************)
(* The ingestion loops of the run.                                         *)
(***************************************************************************)
\* The class whose ingestion loop the run is in.
Class ==
    CASE pc = "ingest_datasets" -> "datasets"
      [] pc = "ingest_users" -> "users"
      [] pc = "ingest_groups" -> "groups"
      [] OTHER -> "none"

Entities(cls) ==
    CASE cls = "datasets" -> datasets
      [] cls = "users" -> users
      [] OTHER -> groups

\* The events ingest_dataset / ingest_user / ingest_group build for an entity.
EventsOf(cls, entity) ==
    CASE cls = "datasets" -> DatasetEvents(entity)
      [] cls = "users" -> UserEvents(config.platform, entity)
      [] OTHER -> GroupEvents(config.platform, entity)

\* A for loop that is left after its first entity.
NextEntity_break(i, n) == n + 1

\* The position of the for loop after the entity at position i.
NextEntity(i, n) == i + 1

\* Where the run goes after the ingestion loop of a class.
AfterLoop(cls) ==
    CASE cls = "datasets" -> "access"
      [] cls = "users" -> "extract_groups"
      [] OTHER -> "complete"

\* wrapper: func(*args, **kwargs) is called; ingest_* builds the events and
\* enters _send_metadata_events.
IngestCall ==
    /\ Class # "none"
    /\ pubState = "idle"
    /\ idx <= Len(Entities(Class))
    /\ events' = EventsOf(Class, Entities(Class)[idx])
    /\ offset' = 0
    /\ sends' = <<>>
    /\ pubState' = "running"
    /\ hist' = [hist EXCEPT !.calls = @ + 1,
                            !.attempted[Class] = IF attempt = 0 THEN @ + 1 ELSE @,
                            !.delivery = IF attempt = 0 THEN NoDelivery ELSE @]
    /\ UNCHANGED <<filterVars, pc, result, connVars, walkVars, entityVars,
                   idx, attempt, exc, outcome>>

\* The call returned: the wrapper returns and the entity is counted a success.
IngestReturned ==
    /\ Class # "none"
    /\ pubState = "returned"
    /\ result' = CountSuccess(result, Class)
    /\ idx' = NextEntity(idx, Len(Entities(Class)))
    /\ attempt' = 0
    /\ events' = <<>> /\ offset' = 0 /\ sends' = <<>> /\ pubState' = "idle"
    /\ hist' = [hist EXCEPT !.calls = 0, !.raises = 0, !.delays = <<>>,
                            !.last = [class |-> Class, outcome |-> "success",
                                      calls |-> hist.calls, raises |-> hist.raises,
                                      delays |-> hist.delays]]
    /\ UNCHANGED <<filterVars, pc, connVars, walkVars, entityVars, exc, outcome>>

\* The call raised: the wrapper sleeps for the backoff delay and tries again,
\* or, after the last attempt, re-raises at once and the entity is counted a
\* failure.
IngestRaised ==
    /\ Class # "none"
    /\ pubState = "raised"
    /\ events' = <<>> /\ offset' = 0 /\ sends' = <<>> /\ pubState' = "idle"
    /\ IF LastAttempt(attempt)
       THEN /\ result' = CountFailure(result, Class, Entities(Class)[idx].name)
            /\ idx' = NextEntity(idx, Len(Entities(Class)))
            /\ attempt' = 0
            /\ hist' = [hist EXCEPT !.calls = 0, !.raises = 0, !.delays = <<>>,
                                    !.last = [class |-> Class, outcome |-> "failed",
                                              calls |-> hist.calls,
                                              raises |-> hist.raises + 1,
                                              delays |-> hist.delays]]
       ELSE /\ attempt' = attempt + 1
            /\ hist' = [hist EXCEPT !.raises = @ + 1,
                                    !.delays = Append(@, Backoff(attempt))]
            /\ UNCHANGED <<result, idx>>
    /\ UNCHANGED <<filterVars, pc, connVars, walkVars, entityVars, exc, outcome>>

\* The for loop over the entities of a class is exhausted.
LoopDone ==
    /\ Class # "none"
    /\ pubState = "idle"
    /\ idx > Len(Entities(Class))
    /\ pc' = AfterLoop(Class)
    /\ idx' = 0
    /\ UNCHANGED <<filterVars, pubVars, result, connVars, walkVars, entityVars,
                   attempt, exc, outcome, hist>>

\* An access-control phase that lists the roles right after the users, before
\* it ingests anything.
AfterExtract_listings_first(cls) ==
    IF cls = "users" THEN "extract_groups" ELSE "ingest_groups"

\* Where the run goes when the extractor of a principal class has returned:
\* into the ingestion loop of that class.
AfterExtract(cls) == IF cls = "users" THEN "ingest_users" ELSE "ingest_groups"

\* if self.config.extract_access_control:
AccessPhase ==
    /\ pc = "access"
    /\ pc' = AfterAccessCheck(config)
    /\ UNCHANGED <<filterVars, pubVars, result, connVars, walkVars, entityVars,
                   idx, attempt, exc, outcome, hist>>

\* The class a position of the access-control extraction belongs to.
ListingClass ==
    IF pc \in {"extract_users", "user_roles", "users_fallback", "build_users"}
    THEN "users" ELSE "groups"

\* The principals the warehouse can report for a class, and how many rows a
\* listing of the class may still hold.
Pool(cls) == IF cls = "users" THEN AllUsers ELSE AllRoles

Room(cls) == MaxEntities - Len(datasets) - (IF cls = "groups" THEN Len(users) ELSE 0)

\* The first row whose grants have not been looked up.
NextRow(rows) ==
    IF \E k \in 1..Len(rows) : rows[k].lookup = "none"
    THEN CHOOSE k \in 1..Len(rows) :
            rows[k].lookup = "none" /\ \A j \in 1..(k - 1) : rows[j].lookup # "none"
    ELSE Len(rows) + 1

\* get_users / get_roles: the listing over the ACCOUNT_USAGE view; its
\* failure enters the except branch with the fallback.
PrimaryListing(cls, at, lookups, fallback) ==
    /\ pc = at
    /\ \E out \in QueryOutcomes(Pool(cls), Room(cls)) :
          /\ pc' = IF out.ok THEN lookups ELSE fallback
          /\ hist' = [hist EXCEPT !.queried = TRUE,
                                  !.queriedFor = @ \cup {cls},
                                  !.walk.source = IF out.ok THEN "primary" ELSE "none",
                                  !.walk.rows = PrincipalRows(out.rows, "upper")]
    /\ UNCHANGED <<filterVars, pubVars, result, connVars, walkVars, entityVars,
                   idx, attempt, exc, outcome>>

\* The secondary lookup of a class: the roles of a user, the members of a role.
Lookup(cls, out) == IF cls = "users" THEN _get_user_roles(out) ELSE _get_role_members(out)

\* for user in results: user['ROLES'] = self._get_user_roles(user['NAME']),
\* and the same for the members of a role; an exception would enter the
\* except branch with the fallback.
GrantLookup(cls, at, build, fallback) ==
    /\ pc = at
    /\ LET k == NextRow(hist.walk.rows)
       IN  IF k > Len(hist.walk.rows)
           THEN /\ pc' = build
                /\ UNCHANGED hist
           ELSE \E out \in GrantOutcomes(Pool(IF cls = "users" THEN "groups" ELSE "users")) :
                   IF Lookup(cls, out).raised
                   THEN /\ pc' = fallback
                        /\ UNCHANGED hist
                   ELSE /\ pc' = at
                        /\ hist' = [hist EXCEPT !.walk.rows[k] =
                                       [@ EXCEPT !.lookup = IF out.ok THEN "ok" ELSE "failed",
                                                 !.grants = Lookup(cls, out).value]]
    /\ UNCHANGED <<filterVars, pubVars, result, connVars, walkVars, entityVars,
                   idx, attempt, exc, outcome>>

\* except: results = self.execute_query("SHOW USERS" / "SHOW ROLES"); what
\* this query raises leaves get_users / get_roles.
FallbackListing(cls, at, build, cause) ==
    /\ pc = at
    /\ \E out \in QueryOutcomes(Pool(cls), Room(cls)) :
          IF out.ok
          THEN /\ pc' = build
               /\ hist' = [hist EXCEPT !.walk.source = "fallback",
                                       !.walk.rows = PrincipalRows(out.rows, "lower")]
               /\ UNCHANGED <<exc, result>>
          ELSE RaiseWith(cause, [hist EXCEPT !.walk.failed = "listing",
                                             !.walk.rows = <<>>])
    /\ UNCHANGED <<filterVars, pubVars, connVars, walkVars, entityVars,
                   idx, attempt, outcome>>

GetUsers == PrimaryListing("users", "extract_users", "user_roles", "users_fallback")

GetUserRoles ==
    GrantLookup("users", "user_roles", "build_users", "users_fallback")

ShowUsers == FallbackListing("users", "users_fallback", "build_users", "extract_users")

\* users = self._extract_users(): one UserMetadata per row of get_users();
\* result.users_processed = len(users)
ExtractUsers ==
    /\ pc = "build_users"
    /\ IF BuildRaises(hist.walk.rows)
       THEN /\ RaiseWith("extract_users", [hist EXCEPT !.walk.failed = "build"])
            /\ UNCHANGED <<users, idx>>
       ELSE /\ users' = BuildPrincipals(hist.walk.rows)
            /\ result' = SetProcessed(result, "users", Len(hist.walk.rows))
            /\ idx' = 1
            /\ pc' = AfterExtract("users")
            /\ hist' = [hist EXCEPT !.extracted = @ \cup {"users"}, !.walk = NoWalk]
            /\ UNCHANGED exc
    /\ UNCHANGED <<filterVars, pubVars, connVars, walkVars, datasets, groups,
                   attempt, outcome>>

GetRoles == PrimaryListing("groups", "extract_groups", "role_members", "roles_fallback")

GetRoleMembers ==
    GrantLookup("groups", "role_members", "build_groups", "roles_fallback")

ShowRoles == FallbackListing("groups", "roles_fallback", "build_groups", "extract_groups")

\* groups = self._extract_groups(): one GroupMetadata per row of get_roles();
\* result.groups_processed = len(groups)
ExtractGroups ==
    /\ pc = "build_groups"
    /\ IF BuildRaises(hist.walk.rows)
       THEN /\ RaiseWith("extract_groups", [hist EXCEPT !.walk.failed = "build"])
            /\ UNCHANGED <<groups, idx>>
       ELSE /\ groups' = BuildPrincipals(hist.walk.rows)
            /\ result' = SetProcessed(result, "groups", Len(hist.walk.rows))
            /\ idx' = 1
            /\ pc' = AfterExtract("groups")
            /\ hist' = [hist EXCEPT !.extracted = @ \cup {"groups"}, !.walk = NoWalk]
            /\ UNCHANGED exc
    /\ UNCHANGED <<filterVars, pubVars, connVars, walkVars, datasets, users,
                   attempt, outcome>>

(***************************************************************************)
(* SpecConnector: a caller (the run, the test-connection command of cli.py,*)
(* the tasks of airflow_dag.py) calls connect, execute_query and           *)
(* disconnect on one SnowflakeConnector, in any order; a query is followed *)
(* through its cursor: cursor(), execute, fetch, close.                    *)
(***************************************************************************)
MaxCalls == 3        \* most operations the caller calls on the connector

\* if not self._connected or not self.connection:
NotConnected(conn, connected) == ~connected \/ conn = "None"

\* A with block whose cursor is closed only when the body returns.
AfterBody_no_finally(bodyRaised) == IF bodyRaised THEN "caller" ELSE "close"

\* Where control goes when the body of `with self._get_cursor()` ends:
\* the finally of _get_cursor runs whether the body returned or raised.
AfterBody(bodyRaised) == "close"

\* if self.connection and self._connected: the guard of disconnect().
Closes(conn, connected) == conn # "None" /\ connected

\* A disconnect() that resets the connector only when close() returned.
AfterDisconnect_no_finally(conn, connected, closeRaised) ==
    IF Closes(conn, connected) /\ ~closeRaised
    THEN [connection |-> "None", connected |-> FALSE]
    ELSE [connection |-> conn, connected |-> connected]

\* The connector after disconnect(): when the guard holds, the finally resets
\* both fields whether close() returned or raised; otherwise nothing is written.
AfterDisconnect(conn, connected, closeRaised) ==
    IF Closes(conn, connected)
    THEN [connection |-> "None", connected |-> FALSE]
    ELSE [connection |-> conn, connected |-> connected]

InitConnector ==
    /\ raw = NoLists
    /\ config = MakeConfig(NoLists, TRUE, TRUE, 1, "snowflake")
    /\ decision = NoDecision
    /\ PubIdle
    /\ RunAt("caller")

\* The operation `op` ends at once with `how`, no cursor having been opened.
EndsAtOnce(op, wasConnected, how) ==
    /\ pc' = "caller"
    /\ hist' = [hist EXCEPT !.conn.calls = @ + 1,
                            !.conn.last = [op |-> op, connected |-> wasConnected,
                                           how |-> how, opened |-> 0, path |-> "none"]]

\* _get_cursor up to its yield, for operation `op`: the check of the
\* connection, then connection.cursor(DictCursor), which returns or raises.
_get_cursor(op, conn, connected) ==
    IF NotConnected(conn, connected)
    THEN EndsAtOnce(op, FALSE, "ConnectionError")
    ELSE \E cursorOk \in BOOLEAN :
            IF cursorOk
            THEN /\ pc' = "execute"
                 /\ hist' = [hist EXCEPT !.conn.calls = @ + 1, !.conn.op = op,
                                         !.conn.open = @ + 1, !.conn.opened = 1]
            ELSE EndsAtOnce(op, TRUE, "raised")

\* connect(): the driver's connect, then _test_connection through a cursor.
connect ==
    /\ pc = "caller"
    /\ hist.conn.calls < MaxCalls
    /\ \E driverOk \in BOOLEAN :
          IF driverOk
          THEN /\ connection' = "conn"
               /\ _connected' = TRUE
               /\ _get_cursor("connect", "conn", TRUE)
          ELSE /\ EndsAtOnce("connect", Closes(connection, _connected), "ConnectionError")
               /\ UNCHANGED connVars
    /\ UNCHANGED <<filterVars, pubVars, result, walkVars, entityVars,
                   idx, attempt, exc, outcome>>

\* execute_query(query): entering the with block.
execute_query ==
    /\ pc = "caller"
    /\ hist.conn.calls < MaxCalls
    /\ _get_cursor("query", connection, _connected)
    /\ UNCHANGED <<filterVars, pubVars, result, connVars, walkVars, entityVars,
                   idx, attempt, exc, outcome>>

\* The body of the with block ends at `step`, by an exception or normally.
BodyEnds(step, raised) ==
    /\ pc' = AfterBody(raised)
    /\ hist' = [hist EXCEPT !.conn.pending = IF raised THEN step ELSE "none"]

\* cursor.execute(query)
cursor_execute ==
    /\ pc = "execute"
    /\ \E ok \in BOOLEAN :
          IF ok THEN pc' = "fetch" /\ UNCHANGED hist
          ELSE BodyEnds("execute", TRUE)
    /\ UNCHANGED <<filterVars, pubVars, result, connVars, walkVars, entityVars,
                   idx, attempt, exc, outcome>>

\* cursor.fetchall() (fetchone() in _test_connection), the last statement of the body.
cursor_fetch ==
    /\ pc = "fetch"
    /\ \E ok \in BOOLEAN : BodyEnds("fetch", ~ok)
    /\ UNCHANGED <<filterVars, pubVars, result, connVars, walkVars, entityVars,
                   idx, attempt, exc, outcome>>

\* finally: cursor.close(), after which the operation returns or re-raises.
cursor_close ==
    /\ pc = "close"
    /\ pc' = "caller"
    /\ hist' = [hist EXCEPT
                  !.conn.open = @ - 1,
                  !.conn.opened = 0,
                  !.conn.op = "none",
                  !.conn.pending = "none",
                  !.conn.last = [op |-> hist.conn.op, connected |-> TRUE,
                                 how |-> IF hist.conn.pending = "none"
                                         THEN "returned" ELSE "raised",
                                 opened |-> hist.conn.opened,
                                 path |-> hist.conn.pending]]
    /\ UNCHANGED <<filterVars, pubVars, result, connVars, walkVars, entityVars,
                   idx, attempt, exc, outcome>>

\* disconnect(), called by the caller of the connector: between its other
\* calls, or once more after the run has disconnected (before the process
\* exits).
disconnect ==
    /\ pc \in {"caller", "done"}
    /\ hist.conn.calls < (IF pc = "done" THEN 1 ELSE MaxCalls)
    /\ hist.exitCode = NotExited
    /\ \E closeOk \in BOOLEAN :
          /\ connection' = AfterDisconnect(connection, _connected, ~closeOk).connection
          /\ _connected' = AfterDisconnect(connection, _connected, ~closeOk).connected
          /\ IF Closes(connection, _connected)
             THEN hist' = [hist EXCEPT
                             !.closeCalls = @ + 1,
                             !.closeFailed = ~closeOk,
                             !.conn.calls = @ + 1,
                             !.conn.last = [op |-> "disconnect", connected |-> TRUE,
                                            how |-> "returned", opened |-> 0,
                                            path |-> "none"]]
             ELSE /\ closeOk
                  /\ hist' = [hist EXCEPT
                                !.conn.calls = @ + 1,
                                !.conn.last = [op |-> "disconnect", connected |-> FALSE,
                                               how |-> "returned", opened |-> 0,
                                               path |-> "none"]]
    /\ UNCHANGED <<filterVars, pubVars, pc, result, walkVars, entityVars,
                   idx, attempt, exc, outcome>>

NextConnector ==
    \/ connect
    \/ execute_query
    \/ cursor_execute
    \/ cursor_fetch
    \/ cursor_close
    \/ disconnect

SpecConnector == InitConnector /\ [][NextConnector]_vars

(***************************************************************************)
(* The end of the run.                                                     *)
(***************************************************************************)
\* The try block ends: status and duration are set.
Complete ==
    /\ pc = "complete"
    /\ result' = CompletedResult(result)
    /\ pc' = "finally"
    /\ UNCHANGED <<filterVars, pubVars, connVars, walkVars, entityVars,
                   idx, attempt, exc, outcome, hist>>

\* A close failure that escapes the finally block and becomes the outcome.
LeaveFinally_close_escapes(pending, closeFailed) ==
    IF pending # "none" \/ closeFailed THEN "raised" ELSE "returned"

\* How the run leaves after the finally block: the pending exception is
\* re-raised, else the result is returned; a close failure is only logged.
LeaveFinally(pending, closeFailed) ==
    IF pending # "none" THEN "raised" ELSE "returned"

\* finally: self.snowflake_connector.disconnect(), which closes the
\* connection when there is one and swallows what close() raises.
Disconnect ==
    /\ pc = "finally"
    /\ \E closeOk \in BOOLEAN :
          /\ connection' = AfterDisconnect(connection, _connected, ~closeOk).connection
          /\ _connected' = AfterDisconnect(connection, _connected, ~closeOk).connected
          /\ IF Closes(connection, _connected)
             THEN /\ hist' = [hist EXCEPT
                                !.disconnectCalls = @ + 1,
                                !.closeCalls = @ + 1,
                                !.closeFailed = ~closeOk,
                                !.atDisconnect = [result |-> result, exc |-> exc]]
                  /\ outcome' = LeaveFinally(exc, ~closeOk)
             ELSE /\ closeOk
                  /\ hist' = [hist EXCEPT
                                !.disconnectCalls = @ + 1,
                                !.atDisconnect = [result |-> result, exc |-> exc]]
                  /\ outcome' = LeaveFinally(exc, FALSE)
    /\ pc' = "done"
    /\ UNCHANGED <<filterVars, pubVars, result, walkVars, entityVars,
                   idx, attempt, exc>>

\* sys.exit(0 if result.status == "completed" else 1) when the run returned
\* its result; sys.exit(1) in the except block when it raised.
ExitCode(how, status) ==
    IF how = "raised" THEN 1
    ELSE IF status = "completed" THEN 0 ELSE 1

\* main(), and the run command of cli.py, after extract_and_ingest_metadata.
main ==
    /\ pc = "done"
    /\ hist.exitCode = NotExited
    /\ hist' = [hist EXCEPT !.exitCode = ExitCode(outcome, result.status)]
    /\ UNCHANGED <<filterVars, pubVars, pc, result, connVars, walkVars, entityVars,
                   idx, attempt, exc, outcome>>

Next ==
    \/ Connect
    \/ StructuralPhase
    \/ GetDatabases
    \/ DbLoop
    \/ SchemaLoop
    \/ TableLoop
    \/ IngestCall
    \/ Post
    \/ PublishReturn
    \/ IngestReturned
    \/ IngestRaised
    \/ LoopDone
    \/ AccessPhase
    \/ GetUsers
    \/ GetUserRoles
    \/ ShowUsers
    \/ ExtractUsers
    \/ GetRoles
    \/ GetRoleMembers
    \/ ShowRoles
    \/ ExtractGroups
    \/ Complete
    \/ Disconnect
    \/ main
    \/ disconnect

Spec == Init /\ [][Next]_vars

(***************************************************************************)
(* Properties of the run.                                                  *)
(***************************************************************************)
Finalized == result.status \in {"completed", "failed"}

\* The classes the configuration enables.
Enabled ==
    (IF config.extract_structural_metadata THEN {"datasets"} ELSE {})
        \cup (IF config.extract_access_control THEN {"users", "groups"} ELSE {})

\* The number of entries of `errs` with the label `label`.
RECURSIVE CountLabel(_, _)
CountLabel(errs, label) ==
    IF errs = <<>> THEN 0
    ELSE CountLabel(Tail(errs), label) + (IF Head(errs).class = label THEN 1 ELSE 0)

\* The ingestion loop of cls was entered and has been left.
LoopLeft(cls) == cls \in hist.extracted /\ Class # cls

\* C3: for every entity class, once the run is finalized (completed or
\* failed), processed = success + failed, and processed is the number of
\* entities the extractor of the class returned (0 when it did not return).
C3_CounterConservation ==
    Finalized =>
        \A cls \in Classes :
            /\ Processed(result, cls) = Success(result, cls) + Failed(result, cls)
            /\ Processed(result, cls) =
                  (IF cls \in hist.extracted THEN Len(Entities(cls)) ELSE 0)

\* A completed run with two datasets, one ingested and one failed.
C3_Witness ==
    /\ pc = "done"
    /\ result.status = "completed"
    /\ result.datasets_processed = 2
    /\ result.datasets_success = 1
    /\ result.datasets_failed = 1

\* A failed run (the role listing failed) whose datasets and users had both
\* successes and failures.
C3_WitnessFailedRun ==
    /\ pc = "done"
    /\ result.status = "failed"
    /\ hist.cause = "extract_groups"
    /\ result.datasets_failed = 1 /\ result.datasets_success = 1
    /\ result.users_failed = 1

\* C4: a permanent ingestion failure of one entity never aborts its class or
\* the run: when the loop of a class is left every entity of the class has
\* been handed to the retry wrapper and counted; the run ends failed only
\* when connect or an extraction failed, and otherwise every enabled class
\* was extracted.
C4_FailureIsolation ==
    /\ \A cls \in Classes :
          LoopLeft(cls) =>
              /\ hist.attempted[cls] = Len(Entities(cls))
              /\ Success(result, cls) + Failed(result, cls) = Len(Entities(cls))
    /\ \A cls \in Classes :
          Class = cls =>
              /\ hist.attempted[cls] \in {idx - 1, idx}
              /\ Success(result, cls) + Failed(result, cls) = idx - 1
    /\ result.status = "failed" => hist.cause # "none"
    /\ (pc = "done" /\ hist.cause = "none") => hist.extracted = Enabled

\* The first of two datasets failed permanently; the second was ingested, and
\* so was a user after it.
C4_Witness ==
    /\ pc = "done"
    /\ Len(datasets) = 2
    /\ result.errors # <<>>
    /\ result.errors[1] = [class |-> "Dataset", name |-> datasets[1].name]
    /\ result.datasets_failed = 1
    /\ result.datasets_success = 1
    /\ result.users_success = 1

\* C5: an entity whose ingestion raised on every attempt was called exactly
\* max_retries + 1 = 4 times and then counted as failed once; a call that
\* returns ends the retries at once (it is the last call for the entity) and
\* the entity is counted a success, with no error string: the error strings of
\* a class are as many as its failed counter.
C5_RetryCeiling ==
    /\ hist.last.outcome = "failed" =>
          /\ hist.last.calls = max_retries + 1
          /\ hist.last.raises = max_retries + 1
          /\ hist.last.calls = 4
    /\ hist.last.outcome = "success" =>
          /\ hist.last.calls = hist.last.raises + 1
          /\ hist.last.calls <= max_retries + 1
    /\ hist.calls <= max_retries + 1
    /\ hist.calls \in {attempt, attempt + 1}
    /\ \A cls \in Classes :
          /\ CountLabel(result.errors, Label(cls)) = Failed(result, cls)
          /\ Class = cls => Success(result, cls) + Failed(result, cls) = idx - 1

\* An entity was counted failed after four calls.
C5_Witness ==
    /\ hist.last.outcome = "failed"
    /\ hist.last.calls = 4
    /\ result.users_failed = 1
    /\ Len(result.errors) = 1

\* An entity was counted a success at its third call, with no error string.
C5_WitnessRetriedSuccess ==
    /\ hist.last.outcome = "success"
    /\ hist.last.calls = 3
    /\ hist.last.raises = 2
    /\ result.errors = <<>>

\* C8: when connect returned and every enabled extractor returned, the run
\* ends completed and returns its result, however many entities failed.
C8_CompletedDespiteFailures ==
    (pc = "done" /\ hist.connectReturned /\ Enabled \subseteq hist.extracted)
        => (result.status = "completed" /\ outcome = "returned" /\ exc = "none")

\* A run in which every entity of every class failed, and which completed.
C8_Witness ==
    /\ pc = "done"
    /\ Enabled = Classes
    /\ \A cls \in Classes :
          /\ Processed(result, cls) >= 1
          /\ Failed(result, cls) = Processed(result, cls)
    /\ result.status = "completed"
    /\ outcome = "returned"

\* C9: when connect or an extraction step fails, the remaining phases are
\* skipped, status is failed, the duration is set, exactly one critical
\* error entry is appended (the last entry), disconnect is attempted and the
\* error is raised to the caller; after a failed connect errors holds that
\* one entry only and no extraction query or post has happened.
C9_FatalFailure ==
    hist.cause # "none" =>
        /\ pc \in {"finally", "done"}
        /\ result.status = "failed"
        /\ result.duration = "elapsed"
        /\ CountLabel(result.errors, "Critical error") = 1
        /\ result.errors[Len(result.errors)] = CriticalError
        /\ exc # "none"
        /\ pc = "done" => (hist.disconnectCalls = 1 /\ outcome = "raised")
        /\ hist.cause = "connect" =>
              (result.errors = <<CriticalError>> /\ ~hist.queried /\ ~hist.posted
               /\ hist.extracted = {})
        /\ hist.cause = "extract_datasets" => (hist.extracted = {} /\ ~hist.posted)
        /\ hist.cause = "extract_users" => hist.extracted \subseteq {"datasets"}
        /\ hist.cause = "extract_groups" => "groups" \notin hist.extracted
        /\ \A cls \in Classes \ hist.extracted :
              /\ Processed(result, cls) = 0
              /\ Success(result, cls) = 0
              /\ Failed(result, cls) = 0
              /\ CountLabel(result.errors, Label(cls)) = 0

\* The connection could not be opened: the run has raised.
C9_Witness ==
    /\ pc = "done"
    /\ hist.cause = "connect"
    /\ outcome = "raised"
    /\ result.errors = <<CriticalError>>

\* The user listing failed after a dataset had failed: two entries, the
\* critical one last, groups never extracted.
C9_WitnessLate ==
    /\ pc = "done"
    /\ hist.cause = "extract_users"
    /\ Len(result.errors) = 2
    /\ config.extract_access_control
    /\ outcome = "raised"

\* C10: on every exit path disconnect is attempted exactly once, after all
\* phase work (the status is final by then); a failure of close() changes
\* neither status, counters nor errors and does not replace the outcome: the
\* result is returned, or the original error raised.
C10_DisconnectOnce ==
    /\ pc # "done" => (hist.disconnectCalls = 0 /\ outcome = "none")
    /\ pc = "done" =>
          /\ hist.disconnectCalls = 1
          /\ hist.closeCalls <= 1
          /\ Finalized
          /\ result = hist.atDisconnect.result
          /\ exc = hist.atDisconnect.exc
          /\ outcome = (IF result.status = "completed" THEN "returned" ELSE "raised")
          /\ (outcome = "raised") <=> (hist.cause # "none")

\* close() raised at the end of a completed run: the result was returned.
C10_Witness ==
    /\ pc = "done"
    /\ hist.closeFailed
    /\ result.status = "completed"
    /\ outcome = "returned"
    /\ result.datasets_success >= 1

\* close() raised after a failed extraction: the extraction error was raised.
C10_WitnessRaised ==
    /\ pc = "done"
    /\ hist.closeFailed
    /\ hist.cause = "extract_datasets"
    /\ outcome = "raised"

\* The run is past its two phases.
PhasesOver == pc \in {"complete", "finally", "done"}

\* C11: the structural phase runs iff extract_structural_metadata is set and
\* the access-control phase runs iff extract_access_control is set, each
\* whatever the other flag says: a disabled phase issues no listing query and
\* no post for its classes and leaves their counters at 0, an enabled phase
\* issues its listing unless the run failed before it; with both disabled the
\* run connects, disconnects and ends completed with all counters 0 and no
\* errors.
C11_PhaseEnabling ==
    /\ \A cls \in Classes \ Enabled :
          /\ cls \notin hist.queriedFor
          /\ cls \notin hist.postedFor
          /\ cls \notin hist.extracted
          /\ hist.attempted[cls] = 0
          /\ Processed(result, cls) = 0
          /\ Success(result, cls) = 0
          /\ Failed(result, cls) = 0
    /\ (PhasesOver /\ hist.connectReturned) =>
          /\ config.extract_structural_metadata => "datasets" \in hist.queriedFor
          /\ (config.extract_access_control /\ hist.cause # "extract_datasets")
                => "users" \in hist.queriedFor
          /\ (config.extract_access_control
              /\ hist.cause \notin {"extract_datasets", "extract_users"})
                => "groups" \in hist.queriedFor
    /\ (pc = "done" /\ Enabled = {}) =>
          /\ hist.connectReturned \/ hist.cause = "connect"
          /\ hist.disconnectCalls = 1
          /\ hist.connectReturned =>
                /\ result = CompletedResult(NewResult)
                /\ result.status = "completed"
                /\ result.errors = <<>>
                /\ outcome = "returned"

\* Both phases disabled: the run connected, closed the connection and completed.
C11_Witness ==
    /\ pc = "done"
    /\ Enabled = {}
    /\ hist.connectReturned
    /\ hist.closeCalls = 1
    /\ result.status = "completed"

\* Only the access-control phase enabled: users and groups were ingested and
\* no dataset listing was issued.
C11_WitnessAccessOnly ==
    /\ pc = "done"
    /\ ~config.extract_structural_metadata
    /\ config.extract_access_control
    /\ result.users_success >= 1
    /\ result.groups_success >= 1
    /\ "datasets" \notin hist.queriedFor

\* The place of an error entry's label in the processing order.
Rank(label) ==
    CASE label = "Dataset" -> 1
      [] label = "User" -> 2
      [] label = "Group" -> 3
      [] OTHER -> 4

\* The names of the entries of `errs` with the label `label`, in order.
RECURSIVE NamesOf(_, _)
NamesOf(errs, label) ==
    IF errs = <<>> THEN <<>>
    ELSE (IF Head(errs).class = label THEN <<Head(errs).name>> ELSE <<>>)
         \o NamesOf(Tail(errs), label)

\* a is b with some elements left out.
RECURSIVE IsSubseq(_, _)
IsSubseq(a, b) ==
    IF a = <<>> THEN TRUE
    ELSE IF b = <<>> THEN FALSE
    ELSE IF Head(a) = Head(b) THEN IsSubseq(Tail(a), Tail(b))
    ELSE IsSubseq(a, Tail(b))

EntityNames(cls) == [k \in 1..Len(Entities(cls)) |-> Entities(cls)[k].name]

\* C12: errors holds one entry per failed entity plus at most one critical
\* entry: its length is datasets_failed + users_failed + groups_failed + (1 if
\* status is failed else 0); the entity entries come in processing order
\* (datasets, then users, then groups, and within a class in the order of its
\* entities), each names its class and the entity's name, and the critical
\* entry, when there is one, is the last.
C12_ErrorsShape ==
    /\ Len(result.errors) =
          result.datasets_failed + result.users_failed + result.groups_failed
          + (IF result.status = "failed" THEN 1 ELSE 0)
    /\ CountLabel(result.errors, "Critical error") =
          (IF result.status = "failed" THEN 1 ELSE 0)
    /\ \A i, j \in 1..Len(result.errors) :
          i < j => Rank(result.errors[i].class) <= Rank(result.errors[j].class)
    /\ \A i \in 1..Len(result.errors) :
          \/ result.errors[i] = CriticalError /\ i = Len(result.errors)
          \/ \E cls \in Classes : result.errors[i].class = Label(cls)
    /\ \A cls \in Classes :
          /\ Len(NamesOf(result.errors, Label(cls))) = Failed(result, cls)
          /\ IsSubseq(NamesOf(result.errors, Label(cls)), EntityNames(cls))

\* A failed run: a dataset failed, then a user, then the role listing.
C12_Witness ==
    /\ pc = "done"
    /\ result.status = "failed"
    /\ Len(result.errors) = 3
    /\ result.errors[1].class = "Dataset"
    /\ result.errors[2].class = "User"
    /\ result.errors[3] = CriticalError

\* A completed run in which the second and the third dataset failed.
C12_WitnessInOrder ==
    /\ pc = "done"
    /\ result.status = "completed"
    /\ Len(datasets) = 3
    /\ result.errors = <<[class |-> "Dataset", name |-> datasets[2].name],
                         [class |-> "Dataset", name |-> datasets[3].name]>>
    /\ datasets[2].name # datasets[3].name

\* The process has exited.
Exited == hist.exitCode # NotExited

\* C17: the exit code reflects the run: it is non-zero when the run status is
\* failed or when any entity class has failed > 0, and zero only when the run
\* completed with no entity failure.
C17_ExitCodeReflectsRun ==
    Exited =>
        (hist.exitCode = 0 <=>
            (result.status = "completed"
             /\ \A cls \in Classes : Failed(result, cls) = 0))

\* C18 as claimed: the final status is assigned only after the disconnect
\* step has been attempted.
C18_StatusAfterDisconnect == Finalized => hist.disconnectCalls >= 1

\* C18 as amended: the final status is assigned before the disconnect step
\* is attempted and the disconnect step does not change it: the order of
\* events is connect, then the enabled phases, then the assignment of the
\* status, then disconnect, and only then does the caller get the result or
\* the error.
C18_StatusBeforeDisconnect ==
    /\ pc \notin {"finally", "done"} =>
          (result.status = "in_progress" /\ hist.disconnectCalls = 0 /\ outcome = "none")
    /\ (hist.queried \/ hist.posted) => hist.connectReturned
    /\ pc = "finally" =>
          (Finalized /\ hist.disconnectCalls = 0 /\ outcome = "none")
    /\ hist.disconnectCalls >= 1 =>
          /\ pc = "done"
          /\ hist.atDisconnect.result.status \in {"completed", "failed"}
          /\ result.status = hist.atDisconnect.result.status
    /\ outcome # "none" => hist.disconnectCalls = 1

\* A run whose phases both ran: the connection was closed with the status
\* already completed.
C18_Witness ==
    /\ pc = "done"
    /\ hist.closeCalls = 1
    /\ hist.atDisconnect.result.status = "completed"
    /\ hist.postedFor = Classes
    /\ outcome = "returned"

\* A run whose user listing failed: the connection was closed with the
\* status already failed.
C18_WitnessFailed ==
    /\ pc = "done"
    /\ hist.closeCalls = 1
    /\ hist.cause = "extract_users"
    /\ hist.atDisconnect.result.status = "failed"
    /\ outcome = "raised"

\* A listing of the access-control phase failed.
AccessListingFailed == hist.cause \in {"extract_users", "extract_groups"}

\* C19 as claimed: in the access-control phase all extraction is finished
\* before any access-control entity is ingested: whenever a user or group
\* listing fails, no user or group event has been sent in that run.
C19_AccessExtractionFirst ==
    AccessListingFailed => hist.postedFor \cap {"users", "groups"} = {}

\* C19 as amended: the access-control phase handles one class after the
\* other: the users are listed and ingested, then the roles are listed and
\* ingested.  When the user listing fails no user or group event has been
\* sent; when the role listing fails no group event has been sent, and every
\* listed user has been ingested or has exhausted its retries by then.
C19_AccessPerClass ==
    /\ hist.cause = "extract_users" => hist.postedFor \cap {"users", "groups"} = {}
    /\ hist.cause = "extract_groups" => "groups" \notin hist.postedFor
    /\ "users" \in hist.postedFor => "users" \in hist.extracted
    /\ "groups" \in hist.postedFor => "groups" \in hist.extracted
    /\ "groups" \in hist.queriedFor =>
          /\ "users" \in hist.extracted
          /\ hist.attempted["users"] = Len(users)
          /\ Success(result, "users") + Failed(result, "users") = Len(users)

\* The role listing failed after a user had been sent to the catalog service.
C19_Witness ==
    /\ pc = "done"
    /\ hist.cause = "extract_groups"
    /\ "users" \in hist.postedFor
    /\ result.users_success >= 1
    /\ "groups" \notin hist.postedFor

\* The place of a name in the rows of a listing.
PosIn(pool, name) == CHOOSE k \in 1..Len(pool) : pool[k] = name

\* Dataset a comes before dataset b in the traversal: database first, then
\* schema, then table, each in the row order of its listing.
Before(a, b) ==
    LET da == PosIn(AllDatabases, a.database)
        db == PosIn(AllDatabases, b.database)
        sa == PosIn(AllSchemas, a.schema)
        sb == PosIn(AllSchemas, b.schema)
        ta == PosIn(AllTables, a.name)
        tb == PosIn(AllTables, b.name)
    IN  \/ da < db
        \/ da = db /\ sa < sb
        \/ da = db /\ sa = sb /\ ta < tb

\* Every entity of cls has been ingested or has exhausted its retries.
AllCounted(cls) ==
    /\ hist.attempted[cls] = Len(Entities(cls))
    /\ Success(result, cls) + Failed(result, cls) = Len(Entities(cls))

\* C20: the run is sequential and keeps the order: no dataset is ingested
\* before the dataset extraction has returned, every dataset is done before
\* the users are listed, every user before the roles are listed; within a
\* class the entities are ingested one at a time in the order of the list,
\* which for datasets is the order of the traversal (database, then schema,
\* then table rows); entity i+1 is started only when entity i has been
\* counted, and the one publish call in progress carries the events of the
\* one entity being ingested.
C20_SequentialOrder ==
    /\ (Walking \/ pc = "get_databases") =>
          (hist.postedFor = {} /\ \A cls \in Classes : hist.attempted[cls] = 0)
    /\ \A cls \in Classes :
          (hist.attempted[cls] > 0 \/ cls \in hist.postedFor) => cls \in hist.extracted
    /\ "users" \in hist.queriedFor => (AllCounted("datasets") /\ Class # "datasets")
    /\ "groups" \in hist.queriedFor => (AllCounted("users") /\ Class # "users")
    /\ \A i, j \in 1..Len(datasets) : i < j => Before(datasets[i], datasets[j])
    /\ \A i, j \in 1..Len(users) : i < j => PosIn(AllUsers, users[i].name) < PosIn(AllUsers, users[j].name)
    /\ \A i, j \in 1..Len(groups) : i < j => PosIn(AllRoles, groups[i].name) < PosIn(AllRoles, groups[j].name)
    /\ pubState # "idle" =>
          /\ Class # "none"
          /\ idx = hist.attempted[Class]
          /\ idx \in 1..Len(Entities(Class))
          /\ events = EventsOf(Class, Entities(Class)[idx])
          /\ Success(result, Class) + Failed(result, Class) = idx - 1
    /\ (Class # "none" /\ pubState = "idle") =>
          /\ hist.attempted[Class] \in {idx - 1, idx}
          /\ hist.attempted[Class] = idx => attempt > 0
          /\ Success(result, Class) + Failed(result, Class) = idx - 1
    /\ Class = "none" => (pubState = "idle" /\ events = <<>> /\ sends = <<>>)

\* Two datasets of two schemas and a user were ingested, in that order.
C20_Witness ==
    /\ pc = "done"
    /\ Len(datasets) = 2
    /\ datasets[1].schema # datasets[2].schema
    /\ Len(users) = 1
    /\ hist.postedFor = {"datasets", "users"}
    /\ result.datasets_success + result.datasets_failed = 2
    /\ result.users_success = 1

\* Datasets of two databases were ingested, those of the first database first.
C20_WitnessTwoDatabases ==
    /\ pc = "done"
    /\ Len(datasets) = 3
    /\ datasets[1].database = "DB1"
    /\ datasets[2].database = "DB1"
    /\ datasets[3].database = "INFORMATION_SCHEMA"
    /\ result.datasets_success = 3

\* The second dataset is being published after the first one failed.
C20_WitnessInFlight ==
    /\ pc = "ingest_datasets"
    /\ pubState = "running"
    /\ idx = 2
    /\ result.datasets_failed = 1
    /\ events = DatasetEvents(datasets[2])

\* The nine counters of the result.
Counters ==
    {cls \o suffix : cls \in Classes, suffix \in {"_processed", "_success", "_failed"}}

\* a is the beginning of b.
IsPrefix(a, b) == Len(a) <= Len(b) /\ SubSeq(b, 1, Len(a)) = a

\* The step finalizes the result: status leaves in_progress.
Finalizes == result.status = "in_progress" /\ result'.status # "in_progress"

\* C21: the result only grows and is finalized once: in every step each of
\* the nine counters is non-decreasing and errors changes only by appending;
\* status leaves in_progress once, to completed or to failed, and never
\* changes afterwards; the duration is set once, in the step that sets the
\* status, and a run that has ended has a final status.
C21_MonotoneResult ==
    [][/\ \A c \in Counters : result'[c] >= result[c]
       /\ IsPrefix(result.errors, result'.errors)
       /\ result.status # "in_progress" =>
             (result'.status = result.status /\ result'.duration = result.duration)
       /\ Finalizes =>
             /\ result'.status \in {"completed", "failed"}
             /\ result.duration = "0.0"
             /\ result'.duration = "elapsed"
       /\ result'.duration # result.duration => Finalizes
       /\ result.status = "completed" => result'.status # "failed"
       /\ pc' = "done" => result'.status # "in_progress"]_vars

\* A failed run whose result grew before it was finalized: a dataset and a
\* user were counted, a user failed, then the role listing failed.
C21_Witness ==
    /\ pc = "finally"
    /\ result.status = "failed"
    /\ result.duration = "elapsed"
    /\ result.datasets_success >= 1
    /\ result.users_failed >= 1
    /\ Len(result.errors) = 2

\* The listings of the structural phase.
StructuralListings == {"databases", "schemas", "tables", "columns"}

\* C22: a failure of the primary-key or foreign-key lookup for one table
\* yields an empty key list for that table only: the table's dataset is still
\* built with its columns, the other tables keep the keys found for them, the
\* traversal goes on (every table that passes the filters is built) and the
\* run does not fail; a failure of the database, schema, table or column
\* listing, and only such a failure, ends the structural phase with the run
\* failed.
C22_BestEffortKeys ==
    /\ \A k \in 1..Len(hist.walk.built) :
          LET b == hist.walk.built[k]
              place == Len(datasets) - (Len(hist.walk.built) - k)
          IN  /\ b.schema_metadata.fields = AllColumns
              /\ b.schema_metadata.primary_keys = (IF b.pkFailed THEN <<>> ELSE KeyColumns)
              /\ b.schema_metadata.foreign_keys = (IF b.fkFailed THEN <<>> ELSE KeyColumns)
              /\ place >= 1
              /\ Triple(datasets[place]) = b.table
              /\ datasets[place].schema_metadata
    /\ hist.walk.built # <<>> =>
          (Walking /\ result.status = "in_progress" /\ hist.cause = "none")
    /\ ExtractorReturning => Len(datasets) = Cardinality(PassingTables)
    /\ hist.walk.failed # "keys"
    /\ hist.walk.failed \in StructuralListings <=> hist.cause = "extract_datasets"
    /\ hist.cause = "extract_datasets" =>
          /\ result.status = "failed"
          /\ pc \in {"finally", "done"}
          /\ "datasets" \notin hist.extracted
          /\ result.datasets_processed = 0

\* The extractor returns two datasets: the primary-key lookup of the first
\* table failed and left it without keys, the second table has its keys.
C22_Witness ==
    /\ ExtractorReturning
    /\ Len(datasets) = 2
    /\ Len(hist.walk.built) = 2
    /\ hist.walk.built[1].pkFailed
    /\ hist.walk.built[1].schema_metadata.primary_keys = <<>>
    /\ hist.walk.built[1].schema_metadata.foreign_keys = KeyColumns
    /\ hist.walk.built[2].schema_metadata.primary_keys = KeyColumns
    /\ ~hist.walk.built[2].fkFailed

\* A table was built and the column listing of the next table failed: the run
\* failed at the column listing.
C22_WitnessColumnsFatal ==
    /\ pc = "finally"
    /\ hist.walk.failed = "columns"
    /\ Cardinality(hist.walk.columnsListed) = 2
    /\ result.status = "failed"

\* get_users / get_roles is running, or _extract_users / _extract_groups is
\* about to build its entities from the rows.
LookupPositions == {"user_roles", "role_members"}

BuildPositions == {"build_users", "build_groups"}

FallbackPositions == {"users_fallback", "roles_fallback"}

\* The list the grant query returns for a principal of the class listed.
Granted == Prefix(Pool(IF ListingClass = "users" THEN "groups" ELSE "users"), 1)

\* C23: when the primary user (or role) listing succeeds, a failure of the
\* per-principal lookup (roles of a user, members of a role) yields an empty
\* list for that principal only: every other principal keeps the list looked
\* up for it, the fallback listing is not entered, the run does not fail, and
\* one entity per listed row is about to be built.
C23_BestEffortGrants ==
    /\ \A k \in 1..Len(hist.walk.rows) :
          LET row == hist.walk.rows[k]
          IN  /\ row.lookup = "failed" => row.grants = <<>>
              /\ row.lookup = "ok" => row.grants = Granted
              /\ row.lookup # "none" => (hist.walk.source = "primary" /\ row.keys = "upper")
    /\ hist.walk.source = "primary" =>
          /\ pc \in LookupPositions \cup BuildPositions
          /\ result.status = "in_progress"
          /\ hist.cause = "none"
          /\ hist.walk.failed = "none"
    /\ (hist.walk.source = "primary" /\ pc \in BuildPositions) =>
          /\ \A k \in 1..Len(hist.walk.rows) : hist.walk.rows[k].lookup # "none"
          /\ ~BuildRaises(hist.walk.rows)
          /\ Len(BuildPrincipals(hist.walk.rows)) = Len(hist.walk.rows)
    /\ pc \in FallbackPositions => (hist.walk.source = "none" /\ hist.walk.rows = <<>>)

\* The role lookup of the first of two users failed and the lookup of the
\* second returned a role: get_users returns both rows.
C23_Witness ==
    /\ pc = "build_users"
    /\ hist.walk.source = "primary"
    /\ Len(hist.walk.rows) = 2
    /\ hist.walk.rows[1].lookup = "failed"
    /\ hist.walk.rows[1].grants = <<>>
    /\ hist.walk.rows[2].lookup = "ok"
    /\ hist.walk.rows[2].grants = <<"R1">>

\* The member lookup of a role failed, after a user had been ingested.
C23_WitnessMembers ==
    /\ pc = "build_groups"
    /\ hist.walk.source = "primary"
    /\ Len(hist.walk.rows) = 1
    /\ hist.walk.rows[1].lookup = "failed"
    /\ result.users_success >= 1

\* The access-control phase failed at the extraction of a class.
AccessExtractionFailed == hist.cause \in {"extract_users", "extract_groups"}

\* C24: when the primary user (or role) listing fails and the fallback
\* listing succeeds, extraction yields one UserMeta (or GroupMeta) per
\* fallback row, with empty roles (members), and the access-control phase
\* does not fail; the extraction error propagates only when both the primary
\* and the fallback listing failed.
C24_FallbackListing ==
    /\ hist.walk.source = "fallback" =>
          /\ ~AccessExtractionFailed
          /\ ~BuildRaises(hist.walk.rows)
          /\ Len(BuildPrincipals(hist.walk.rows)) = Len(hist.walk.rows)
          /\ \A k \in 1..Len(hist.walk.rows) : GrantsOf(hist.walk.rows[k]) = <<>>
    /\ AccessExtractionFailed => hist.walk.failed = "listing"

\* A cursor is open exactly inside the with block.
InWithBlock == pc \in {"execute", "fetch", "close"}

\* C25: every cursor a query opens is closed before the operation returns
\* or raises, whether the query succeeded, the execute failed or the fetch
\* failed; at most one cursor is open at any time, none between operations
\* and at the end; a query on a connector that is not connected raises
\* ConnectionError and opens no cursor.
C25_CursorReleased ==
    /\ hist.conn.open \in {0, 1}
    /\ hist.conn.open = 1 <=> InWithBlock
    /\ pc = "caller" => hist.conn.open = 0
    /\ hist.conn.last.opened = 1 =>
          /\ hist.conn.last.how \in {"returned", "raised"}
          /\ hist.conn.last.path \in {"none", "execute", "fetch"}
          /\ hist.conn.last.how = "returned" <=> hist.conn.last.path = "none"
    /\ (hist.conn.last.op = "query" /\ ~hist.conn.last.connected) =>
          /\ hist.conn.last.how = "ConnectionError"
          /\ hist.conn.last.opened = 0

\* A query whose fetch failed has raised, its cursor closed.
C25_Witness ==
    /\ pc = "caller"
    /\ hist.conn.last.op = "query"
    /\ hist.conn.last.path = "fetch"
    /\ hist.conn.last.how = "raised"
    /\ hist.conn.last.opened = 1
    /\ hist.conn.open = 0

\* A query was attempted after disconnect() and failed without a cursor.
C25_WitnessNotConnected ==
    /\ pc = "caller"
    /\ hist.closeCalls = 1
    /\ hist.conn.last.op = "query"
    /\ hist.conn.last.how = "ConnectionError"
    /\ hist.conn.open = 0

\* A query returned its rows, and so did the one before the cursor of which
\* had been closed.
C25_WitnessSuccess ==
    /\ pc = "caller"
    /\ hist.conn.calls = MaxCalls
    /\ hist.conn.last.op = "query"
    /\ hist.conn.last.how = "returned"
    /\ hist.conn.last.opened = 1
    /\ hist.conn.open = 0

\* C26: _send_metadata_events returns normally only if every batch it sent
\* was answered with status 200 or 201: an answer with any other status
\* makes the call raise, as the last post of the call.
C26_ReturnMeansAll200 ==
    /\ pubState = "returned" => \A k \in 1..Len(sends) : Answered200(sends[k].reply)
    /\ \A k \in 1..Len(sends) :
          ~Answered200(sends[k].reply) => (pubState = "raised" /\ k = Len(sends))

\* C27: an entity counted as failed has had none of its events accepted by
\* the catalog service, and no event is accepted twice: the retry of the
\* whole publish after a failure in a later batch leaves neither a partly
\* ingested entity nor a duplicate delivery.
C27_NoPartialNoDuplicate ==
    /\ (hist.last.outcome = "failed" /\ hist.calls = 0) => hist.delivery.accepted = {}
    /\ ~hist.delivery.duplicate

(***************************************************************************)
(* SpecPlatform: the run with both phases enabled, for every configured    *)
(* platform name.                                                          *)
(***************************************************************************)
InitPlatform ==
    /\ raw = ExcludedLists
    /\ \E platform \in Platforms :
          config = MakeConfig(raw, TRUE, TRUE, MaxBatch, platform)
    /\ decision = NoDecision
    /\ PubIdle
    /\ RunAt("connect")

SpecPlatform == InitPlatform /\ [][Next]_vars

DataPlatformUrn(platform) == "urn:li:dataPlatform:" \o platform

\* _create_schema_metadata: the platform of the schema aspect is a literal.
_create_schema_metadata(schema_name) ==
    [schemaName |-> schema_name, platform |-> DataPlatformUrn("snowflake")]

\* The identifier of `entity` with the platform `platform` in it.
UrnWith(platform, cls, entity) ==
    CASE cls = "datasets" -> _create_dataset_urn([entity EXCEPT !.platform = platform])
      [] cls = "users" -> _create_user_urn(platform, entity)
      [] OTHER -> _create_group_urn(platform, entity)

\* C28: every identifier emitted in a run carries the configured platform:
\* the events of the entity being ingested name it by the identifier built
\* with config.platform, and the schema aspect's platform is config.platform.
C28_OnePlatform ==
    (Class # "none" /\ pubState # "idle") =>
        \A k \in 1..Len(events) :
            /\ events[k].entityUrn = UrnWith(config.platform, Class, Entities(Class)[idx])
            /\ events[k].aspectName = "schemaMetadata" =>
                  _create_schema_metadata(Entities(Class)[idx].name).platform
                      = DataPlatformUrn(config.platform)

\* C29: when extract_and_ingest_metadata has returned or raised, the
\* connector holds no connection and its connected flag is false, on every
\* path: also when the driver connection was opened and the connection test
\* failed, and when close() raised; a disconnect() called again finds the
\* guard false, calls close() on nothing and writes nothing.
C29_DisconnectedAfterRun ==
    pc = "done" =>
        /\ connection = "None"
        /\ ~_connected
        /\ hist.closeCalls <= 1
        /\ hist.conn.last.op = "disconnect" => ~hist.conn.last.connected
        /\ AfterDisconnect(connection, _connected, FALSE)
              = [connection |-> connection, connected |-> _connected]

\* The connection test failed after the driver had connected, and close()
\* raised in the finally block of the run.
C29_Witness ==
    /\ pc = "done"
    /\ hist.cause = "connect"
    /\ hist.closeCalls = 1
    /\ hist.closeFailed
    /\ outcome = "raised"

\* disconnect() was called again after a completed run whose close() raised.
C29_WitnessSecondCall ==
    /\ pc = "done"
    /\ result.status = "completed"
    /\ hist.closeFailed
    /\ hist.conn.last.op = "disconnect"
    /\ hist.conn.calls >= 1

(***************************************************************************)
(* SpecLive: the run under the assumption that every call it makes returns *)
(* or raises: the single thread of the run then always takes its next step.*)
(***************************************************************************)
InitLive ==
    /\ raw = FilteredLists
    /\ \E s \in BOOLEAN, a \in BOOLEAN, b \in 1..MaxBatch :
          config = MakeConfig(raw, s, a, b, "snowflake")
    /\ decision = NoDecision
    /\ PubIdle
    /\ RunAt("connect")

SpecLive == InitLive /\ [][Next]_vars /\ WF_vars(Next)

\* The delays before the retries 1..n of one entity.
Delays(n) == [k \in 1..n |-> backoff_factor * 2^(k - 1)]

\* The attempts made for the current entity and for the entity counted last.
BoundedRetries ==
    /\ hist.calls <= max_retries + 1
    /\ hist.raises <= max_retries
    /\ hist.delays = Delays(hist.raises)
    /\ hist.last.outcome # "none" =>
          /\ hist.last.calls <= max_retries + 1
          /\ hist.last.delays = Delays(hist.last.calls - 1)
    /\ hist.last.outcome = "failed" =>
          /\ hist.last.calls = max_retries + 1
          /\ hist.last.raises = max_retries + 1
          /\ Len(hist.last.delays) = max_retries

\* The run has ended with a final status, the error raised if it failed.
Terminated ==
    /\ pc = "done"
    /\ Finalized
    /\ result.status = "failed" => (outcome = "raised" /\ exc # "none")
    /\ result.status = "completed" => outcome = "returned"

\* C30: provided every warehouse and catalog call returns or raises, every
\* run ends with a final status (completed, or failed with the error
\* raised); an entity is attempted at most max_retries + 1 times, the retry
\* after attempt a waits backoff_factor * 2^a, and nothing is waited after
\* the last failed attempt.
C30_Termination == []BoundedRetries /\ <>Terminated

\* A run ended after an entity had failed on all its attempts, the wrapper
\* having slept 2, 4 and 8 seconds.
C30_Witness ==
    /\ pc = "done"
    /\ hist.last.outcome = "failed"
    /\ hist.last.calls = 4
    /\ hist.last.delays = <<2, 4, 8>>
    /\ result.status = "completed"

====
